---- MODULE Spec2Model ----
(***************************************************************************)
(* krakncat: a CLI that keeps several git hosting identities in a JSON     *)
(* store (~/.krakncat/config.json) and switches between them by editing    *)
(* the global / local git configuration and ~/.ssh/config.                 *)
(*                                                                         *)
(* Every command of the tool is one action.  An action is the whole        *)
(* command: cobra's PersistentPreRun (the first-run migration check)       *)
(* followed by the command's RunE handler.  Files are modelled by their    *)
(* content: the store by its JSON document, ~/.ssh/config and ~/.gitconfig *)
(* by their lines (the result of strings.Split(text, "\n")).               *)
(***************************************************************************)
EXTENDS Integers, Sequences, FiniteSets, TLC

VARIABLES
    configFile,   \* ~/.krakncat/config.json: absent, or the JSON document
    memConfig,    \* the in-memory Config last handed to saveConfig
    keyFiles,     \* paths of the private key files that exist (each with its .pub)
    sshConfig,    \* ~/.ssh/config as its sequence of lines
    gitconfig,    \* ~/.gitconfig: global user.name, user.email and the other lines
    dirConfig,    \* content of <dir>/.gitconfig for every directory
    localConfig,  \* user.name / user.email of the repository at RepoPath
    lastCmd,      \* the command that ran last, with its arguments
    result,       \* how that command ended: "ok" or the error it returned
    provider,     \* the Provider createCustomProvider returned; before its
                  \* dialogue ran, only the hostname that will be typed
    procs         \* the tool processes that run side by side: where each one
                  \* is in its command and what it holds in memory

vars == <<configFile, memConfig, keyFiles, sshConfig, gitconfig, dirConfig,
          localConfig, lastCmd, result, provider, procs>>

----------------------------------------------------------------------------
(* Bounds of the model *)

MaxAccounts == 2    \* longest account sequence the store is grown to
MaxSSHBlocks == 2   \* most Host blocks appended to ~/.ssh/config
MaxSelect == 2      \* longest comma separated selection typed in the migration menu
MaxIncludes == 3    \* most includeIf stanzas appended to ~/.gitconfig
MaxSSHLines == 4    \* longest ~/.ssh/config that SpecDiscover starts from
MaxGitLines == 4    \* longest ~/.gitconfig that SpecIncludes starts from
MaxPieces == 3      \* most pieces of a hostname typed at the custom-provider prompt
MaxInput == 5       \* most lines on the standard input of the first-run check

----------------------------------------------------------------------------
(* package strings *)

HasPrefix(s, p) == Len(s) >= Len(p) /\ SubSeq(s, 1, Len(p)) = p

HasSuffix(s, p) == Len(s) >= Len(p) /\ SubSeq(s, Len(s) - Len(p) + 1, Len(s)) = p

TrimPrefix(s, p) == IF HasPrefix(s, p) THEN SubSeq(s, Len(p) + 1, Len(s)) ELSE s

Contains(s, sub) ==
    \E i \in 1..(Len(s) - Len(sub) + 1) : SubSeq(s, i, i + Len(sub) - 1) = sub

\* strings.Index: the offset of the first sub in s, counted from 0, or -1
Index(s, sub) ==
    IF Contains(s, sub)
    THEN (CHOOSE i \in 1..(Len(s) - Len(sub) + 1) :
              /\ SubSeq(s, i, i + Len(sub) - 1) = sub
              /\ \A j \in 1..(i - 1) : SubSeq(s, j, j + Len(sub) - 1) # sub) - 1
    ELSE -1

IsSpace(ch) == ch \in {" ", "\t", "\n", "\r"}

RECURSIVE TrimLeft(_)
TrimLeft(s) ==
    IF Len(s) > 0 /\ IsSpace(SubSeq(s, 1, 1)) THEN TrimLeft(SubSeq(s, 2, Len(s))) ELSE s

RECURSIVE TrimRight(_)
TrimRight(s) ==
    IF Len(s) > 0 /\ IsSpace(SubSeq(s, Len(s), Len(s)))
    THEN TrimRight(SubSeq(s, 1, Len(s) - 1)) ELSE s

TrimSpace(s) == TrimRight(TrimLeft(s))

----------------------------------------------------------------------------
(* The environment *)

HomeDir == "/u"

\* Go strings are byte strings, and stdin and argv deliver a byte that is
\* not valid UTF-8 unchanged.  In this model the character # stands for such
\* a byte (0xFF) and the character ? for U+FFFD, the replacement character.
InvalidByte == "#"
ReplacementChar == "?"
BadName == "w#"

Names == {"work", "home"}                 \* names typed at add and generate-key
StoreNames == Names \cup {"default"}      \* names typed at use, global and remove
CustomKey == "/k/alt"                     \* a key path typed instead of the default
RepoPath == "/repo"                       \* a directory holding a .git directory
PlainPath == "/plain"                     \* a directory without one

----------------------------------------------------------------------------
(* config.go: the store *)

Account(name, email, sshKey, username) ==
    [Name |-> name, Email |-> email, SSHKey |-> sshKey, Username |-> username,
     IsDefault |-> FALSE]

NoFile == [exists |-> FALSE]

JNull == [t |-> "null"]
JArray(s) == [t |-> "array", v |-> s]

\* encoding/json writes a string coerced to valid UTF-8: every invalid byte
\* becomes U+FFFD.
HasInvalidByte(s) == \E i \in 1..Len(s) : SubSeq(s, i, i) = InvalidByte

RECURSIVE ReplaceInvalid(_)
ReplaceInvalid(s) ==
    IF Len(s) = 0 THEN s
    ELSE (IF SubSeq(s, 1, 1) = InvalidByte THEN ReplacementChar ELSE SubSeq(s, 1, 1))
         \o ReplaceInvalid(SubSeq(s, 2, Len(s)))

ToValidUTF8(s) == IF HasInvalidByte(s) THEN ReplaceInvalid(s) ELSE s

MarshalAccount(a) ==
    [name |-> ToValidUTF8(a.Name), email |-> ToValidUTF8(a.Email),
     ssh_key |-> ToValidUTF8(a.SSHKey), username |-> ToValidUTF8(a.Username),
     is_default |-> a.IsDefault]

Marshal(c) ==
    [accounts |-> IF c.AccountsNil THEN JNull
                  ELSE JArray([i \in 1..Len(c.Accounts) |-> MarshalAccount(c.Accounts[i])]),
     current_account |-> ToValidUTF8(c.CurrentAccount),
     migration_done |-> c.MigrationDone]

UnmarshalAccount(o) ==
    [Name |-> o.name, Email |-> o.email, SSHKey |-> o.ssh_key, Username |-> o.username,
     IsDefault |-> o.is_default]

Unmarshal(doc) ==
    [Accounts |-> IF doc.accounts.t = "null" THEN <<>>
                  ELSE [i \in 1..Len(doc.accounts.v) |-> UnmarshalAccount(doc.accounts.v[i])],
     AccountsNil |-> doc.accounts.t = "null",
     CurrentAccount |-> doc.current_account,
     MigrationDone |-> doc.migration_done]

EmptyConfig ==
    [Accounts |-> <<>>, AccountsNil |-> FALSE, CurrentAccount |-> "", MigrationDone |-> FALSE]

loadConfig(file) == IF ~file.exists THEN EmptyConfig ELSE Unmarshal(file.doc)

\* The files a command works on while it runs, threaded through its steps:
\* file = config.json, mem = the Config last handed to saveConfig,
\* keys = the key files, ssh = ~/.ssh/config, git = ~/.gitconfig,
\* dirs = the <dir>/.gitconfig files, local = the repository's identity,
\* err = the error the command returned ("" while it has not failed).
World ==
    [file |-> configFile, mem |-> memConfig, keys |-> keyFiles, ssh |-> sshConfig,
     git |-> gitconfig, dirs |-> dirConfig, local |-> localConfig, err |-> ""]

Fail(w, e) == [w EXCEPT !.err = e]

saveConfig(w, c) == [w EXCEPT !.file = [exists |-> TRUE, doc |-> Marshal(c)], !.mem = c]

\* index of the first account called name, 0 if there is none
IndexOf(accounts, name) ==
    IF \E i \in 1..Len(accounts) : accounts[i].Name = name
    THEN CHOOSE i \in 1..Len(accounts) :
            /\ accounts[i].Name = name
            /\ \A j \in 1..(i - 1) : accounts[j].Name # name
    ELSE 0

\* addAccount without its search for an entry of the same name: a variant
\* the overwrite property (C3) must tell from addAccount
addAccount_Append(c, account) ==
    IF Len(c.Accounts) = 0
    THEN [c EXCEPT !.Accounts = <<[account EXCEPT !.IsDefault = TRUE]>>,
                   !.AccountsNil = FALSE,
                   !.CurrentAccount = account.Name]
    ELSE [c EXCEPT !.Accounts = Append(c.Accounts, account), !.AccountsNil = FALSE]

\* Config.addAccount making every new account the current one: a variant
\* the current-account property of add (C27) must tell from addAccount
addAccount_AlwaysCurrent(c, account) ==
    LET i == IndexOf(c.Accounts, account.Name) IN
    IF i # 0
    THEN [c EXCEPT !.Accounts[i] = account]
    ELSE [c EXCEPT !.Accounts = Append(c.Accounts, [account EXCEPT !.IsDefault = TRUE]),
                   !.AccountsNil = FALSE,
                   !.CurrentAccount = account.Name]

\* Config.addAccount, up to its saveConfig
addAccount(c, account) ==
    LET i == IndexOf(c.Accounts, account.Name) IN
    IF i # 0
    THEN [c EXCEPT !.Accounts[i] = account]
    ELSE IF Len(c.Accounts) = 0
         THEN [c EXCEPT !.Accounts = <<[account EXCEPT !.IsDefault = TRUE]>>,
                        !.AccountsNil = FALSE,
                        !.CurrentAccount = account.Name]
         ELSE [c EXCEPT !.Accounts = Append(c.Accounts, account),
                        !.AccountsNil = FALSE]

\* Config.getAccount: a copy of the first account called name, or nil
getAccount(c, name) ==
    LET i == IndexOf(c.Accounts, name) IN
    IF i = 0 THEN [found |-> FALSE] ELSE [found |-> TRUE, account |-> c.Accounts[i]]

\* Config.setCurrentAccount, up to its saveConfig
setCurrentAccount(c, name) ==
    IF ~getAccount(c, name).found
    THEN [err |-> "not found", config |-> c]
    ELSE [err |-> "", config |-> [c EXCEPT !.CurrentAccount = name]]

----------------------------------------------------------------------------
(* migrate.go: discovery of existing configuration *)

Discovered(name, email, username, source, suggested) ==
    [Name |-> name, Email |-> email, Username |-> username, Source |-> source,
     Suggested |-> suggested]

\* the loop of discoverSSHAccounts from line i on
RECURSIVE ScanSSHLines(_, _, _, _)
ScanSSHLines(lines, i, currentHost, accounts) ==
    IF i > Len(lines) THEN accounts
    ELSE LET line == TrimSpace(lines[i]) IN
         IF HasPrefix(line, "Host github.com-")
         THEN ScanSSHLines(lines, i + 1, TrimPrefix(line, "Host "), accounts)
         ELSE IF HasPrefix(line, "User ") /\ currentHost # ""
         THEN LET currentUser == TrimPrefix(line, "User ")
                  accountName == TrimPrefix(currentHost, "github.com-")
              IN  ScanSSHLines(lines, i + 1, currentHost,
                     IF accountName # "" /\ accountName # "github.com"
                     THEN Append(accounts,
                              Discovered("", "", currentUser,
                                         "SSH Config (" \o currentHost \o ")", FALSE))
                     ELSE accounts)
         ELSE ScanSSHLines(lines, i + 1, currentHost, accounts)

\* a missing ~/.ssh/config (no lines at all) yields nothing
discoverSSHAccounts(ssh) == ScanSSHLines(ssh, 1, "", <<>>)

\* discoverExistingAccounts with the two sources taken in the other order: a
\* variant the order property (C13) must tell from it
discoverExistingAccounts_SSHFirst(git, ssh) ==
    discoverSSHAccounts(ssh)
    \o (IF git.userName # "" \/ git.userEmail # ""
        THEN <<Discovered(git.userName, git.userEmail, "", "Global Git Config", TRUE)>>
        ELSE <<>>)

discoverExistingAccounts(git, ssh) ==
    (IF git.userName # "" \/ git.userEmail # ""
     THEN <<Discovered(git.userName, git.userEmail, "", "Global Git Config", TRUE)>>
     ELSE <<>>)
    \o discoverSSHAccounts(ssh)

\* selectAccountsToMigrate, for the line the prompt loop accepts; the line
\* is given parsed: "0" is <<0>>, "1,3" is <<1, 3>>
selectAccountsToMigrate(discovered, choice) ==
    IF choice = <<0>> THEN <<>>
    ELSE IF choice = <<Len(discovered) + 1>> THEN discovered
    ELSE [i \in 1..Len(choice) |-> discovered[choice[i]]]

\* the lines selectAccountsToMigrate accepts when n accounts were discovered
AcceptedChoices(n) ==
    {<<0>>, <<n + 1>>} \cup UNION {[1..k -> 1..n] : k \in 1..MaxSelect}

\* the private keys selectSSHKey finds in ~/.ssh
existingKeys(keys) == {k \in keys : HasPrefix(k, HomeDir \o "/.ssh/")}

\* selectSSHKey, for the line its prompt loop accepts, a key being chosen by
\* its path: without keys in ~/.ssh the typed path is returned unverified,
\* otherwise "" and "0" mean no key and a path must be that of a file
selectSSHKeyAccepts(keys, input) ==
    existingKeys(keys) = {} \/ input \in {"", "0"} \/ input \in keys

selectSSHKey(keys, input) ==
    IF existingKeys(keys) # {} /\ input \in {"", "0"} THEN "" ELSE input

\* migrateAccount; in = the lines typed at its prompts (an unasked prompt's
\* line is ignored)
migrateAccount(discovered, in, keys) ==
    LET accountName ==
            IF in.name # "" THEN in.name
            ELSE IF discovered.Username # "" THEN discovered.Username
            ELSE "default"
        email == IF discovered.Email = "" THEN in.email ELSE discovered.Email
        username ==
            IF discovered.Username # "" THEN discovered.Username
            ELSE IF in.username # "" THEN in.username
            ELSE IF discovered.Name # "" THEN discovered.Name
            ELSE ""
    IN  Account(accountName, email, selectSSHKey(keys, in.key), username)

\* checkAndOfferMigration; m = the lines typed at its prompts
checkAndOfferMigration(w, m) ==
    LET config == loadConfig(w.file)
        done == [config EXCEPT !.MigrationDone = TRUE]
        discovered == discoverExistingAccounts(w.git, w.ssh)
        selected == selectAccountsToMigrate(discovered, m.choice)
        migrated == [i \in 1..Len(selected) |-> migrateAccount(selected[i], m.per[i], w.keys)]
    IN  IF config.MigrationDone \/ Len(config.Accounts) > 0 THEN w
        ELSE IF Len(discovered) = 0 THEN saveConfig(w, done)
        ELSE IF m.resp \in {"n", "no"} THEN saveConfig(w, done)
        ELSE IF Len(selected) = 0 THEN saveConfig(w, done)
        ELSE saveConfig(w, [done EXCEPT !.Accounts = config.Accounts \o migrated,
                                        !.AccountsNil = FALSE,
                                        !.CurrentAccount = (config.Accounts \o migrated)[1].Name])

\* does checkAndOfferMigration reach its prompts?
MigrationOffered(w) ==
    LET config == loadConfig(w.file) IN
    /\ ~config.MigrationDone
    /\ Len(config.Accounts) = 0
    /\ Len(discoverExistingAccounts(w.git, w.ssh)) > 0

NoPrompt == [resp |-> "n", choice |-> <<0>>, per |-> <<>>]

\* what is typed at the prompts of migrateAccount and selectSSHKey
MigNames == {"", "work"}
MigEmails == {"w@x.io"}
MigUsernames == {""}
MigKeys == {""}

\* what the user may type into the migration prompts in world w
MigrationInputs(w) ==
    IF ~MigrationOffered(w) THEN {NoPrompt}
    ELSE LET discovered == discoverExistingAccounts(w.git, w.ssh)
             PerInputs == [name : MigNames, email : MigEmails, username : MigUsernames,
                           key : {k \in MigKeys : selectSSHKeyAccepts(w.keys, k)}]
         IN  {NoPrompt} \cup
             UNION {{[resp |-> "y", choice |-> ch, per |-> p] :
                        p \in [1..Len(selectAccountsToMigrate(discovered, ch)) -> PerInputs]} :
                    ch \in {c \in AcceptedChoices(Len(discovered)) :
                               Len(selectAccountsToMigrate(discovered, c)) <= MaxAccounts}}

\* RootCmd.PersistentPreRun: the migration check, its error ignored
PersistentPreRun(w, m) == checkAndOfferMigration(w, m)

----------------------------------------------------------------------------
(* list.go *)

\* the entries listCmd prints with the "(current)" mark
listCurrent(c) == {i \in 1..Len(c.Accounts) : c.Accounts[i].Name = c.CurrentAccount}

\* listCmd.RunE without --global: it prints and changes nothing
listCmd(w) == w

----------------------------------------------------------------------------
(* generate_key.go *)

DefaultKeyPath(name) == HomeDir \o "/.ssh/id_ed25519_gh_" \o name

\* the lines that appending sshConfigSnippet adds to ~/.ssh/config
sshConfigSnippet(name, keyPath) ==
    <<"", "Host github.com-" \o name, "  HostName github.com", "  User git",
      "  IdentityFile " \o keyPath, "">>

\* os.OpenFile(O_APPEND|O_CREATE) and WriteString: a missing file is created
\* empty, which is the single line ""
appendToSSHConfig(ssh, name, keyPath) ==
    (IF ssh = <<>> THEN <<"">> ELSE ssh) \o sshConfigSnippet(name, keyPath)

\* generateSSHKey without its test for an existing key file: a variant the
\* already-exists property (C15) must tell from it
generateSSHKey_Overwrite(w, name, email, keyPath, keygenOk, resp) ==
    IF ~keygenOk THEN Fail(w, "failed to generate ssh key")
    ELSE LET w1 == [w EXCEPT !.keys = w.keys \cup {keyPath}] IN
         IF resp = "y" \/ resp = ""
         THEN [w1 EXCEPT !.ssh = appendToSSHConfig(w.ssh, name, keyPath)]
         ELSE w1

\* generateSSHKey; keygenOk = ssh-keygen exits with 0, resp = the answer to
\* "append this config to ~/.ssh/config?"
generateSSHKey(w, name, email, keyPath, keygenOk, resp) ==
    IF keyPath \in w.keys THEN Fail(w, "SSH key already exists")
    ELSE IF ~keygenOk THEN Fail(w, "failed to generate ssh key")
    ELSE LET w1 == [w EXCEPT !.keys = w.keys \cup {keyPath}] IN
         IF resp = "y" \/ resp = ""
         THEN [w1 EXCEPT !.ssh = appendToSSHConfig(w.ssh, name, keyPath)]
         ELSE w1

\* generateKeyCmd.RunE
generateKeyCmd(w, name, email, keygenOk, resp, saveResp, username) ==
    IF name = "" \/ email = "" THEN Fail(w, "please provide both --name and --email")
    ELSE LET keyPath == DefaultKeyPath(name)
             w1 == generateSSHKey(w, name, email, keyPath, keygenOk, resp)
         IN  IF w1.err # "" THEN w1
             ELSE IF (saveResp = "y" \/ saveResp = "") /\ username # ""
             THEN saveConfig(w1, addAccount(loadConfig(w1.file),
                                            Account(name, email, keyPath, username)))
             ELSE w1

----------------------------------------------------------------------------
(* add.go *)

\* addCmd.RunE; genResp = the answer to "generate it now?"
addCmd(w, name, email, username, sshKeyInput, genResp, keygenOk, resp) ==
    IF name = "" THEN Fail(w, "account name cannot be empty")
    ELSE IF email = "" THEN Fail(w, "email cannot be empty")
    ELSE IF username = "" THEN Fail(w, "GitHub username cannot be empty")
    ELSE LET sshKey == IF sshKeyInput # "" THEN sshKeyInput ELSE DefaultKeyPath(name)
             w1 == IF sshKey \in w.keys THEN w
                   ELSE IF genResp = "y" \/ genResp = ""
                   THEN generateSSHKey(w, name, email, sshKey, keygenOk, resp)
                   ELSE Fail(w, "cannot add account without SSH key")
         IN  IF w1.err # "" THEN w1
             ELSE saveConfig(w1, addAccount(loadConfig(w1.file),
                                            Account(name, email, sshKey, username)))

\* addCmd up to its loadConfig: the questions and the key
addBegin(w, name, email, username, sshKeyInput, genResp, keygenOk, resp) ==
    IF name = "" THEN Fail(w, "account name cannot be empty")
    ELSE IF email = "" THEN Fail(w, "email cannot be empty")
    ELSE IF username = "" THEN Fail(w, "GitHub username cannot be empty")
    ELSE LET sshKey == IF sshKeyInput # "" THEN sshKeyInput ELSE DefaultKeyPath(name)
         IN  IF sshKey \in w.keys THEN w
             ELSE IF genResp = "y" \/ genResp = ""
             THEN generateSSHKey(w, name, email, sshKey, keygenOk, resp)
             ELSE Fail(w, "cannot add account without SSH key")

\* addCmd reading the store again before it saves: a variant the
\* lost-update property (C24) must tell from addEnd
addEnd_Reload(w, config, account) == saveConfig(w, addAccount(loadConfig(w.file), account))

\* addCmd from config.addAccount on; config is what its loadConfig returned
addEnd(w, config, account) == saveConfig(w, addAccount(config, account))

----------------------------------------------------------------------------
(* remove.go *)

\* removeAccounts building a fresh Config around the kept accounts, which
\* loses the migration flag: a variant the property of the flag (C10) must
\* tell from removeAccounts
removeAccounts_Fresh(c, accountName) ==
    LET kept == SelectSeq(c.Accounts, LAMBDA acc : acc.Name # accountName)
    IN  [Accounts |-> kept, AccountsNil |-> (Len(kept) = 0),
         CurrentAccount |-> c.CurrentAccount, MigrationDone |-> FALSE]

\* the accounts removeCmd keeps: a nil slice that is appended to
removeAccounts(c, accountName) ==
    LET kept == SelectSeq(c.Accounts, LAMBDA acc : acc.Name # accountName)
    IN  [c EXCEPT !.Accounts = kept, !.AccountsNil = (Len(kept) = 0)]

\* removeCmd without its update of the current account: a variant the
\* invariant of currentAccount (C2) must tell from the update
updateCurrentAfterRemove_Keep(c, accountName) == c

\* "Update current account if needed"
updateCurrentAfterRemove(c, accountName) ==
    IF c.CurrentAccount = accountName
    THEN IF Len(c.Accounts) > 0
         THEN [c EXCEPT !.CurrentAccount = c.Accounts[1].Name]
         ELSE [c EXCEPT !.CurrentAccount = ""]
    ELSE c

\* removeCmd also deleting the Host lines of the account from ~/.ssh/config:
\* a variant the append-only property (C18) must tell from removeCmd
removeCmd_CleanSSH(w, accountName, resp, keyResp) ==
    LET config == loadConfig(w.file)
        got == getAccount(config, accountName)
    IN  IF ~got.found THEN Fail(w, "account not found")
        ELSE IF resp # "y" /\ resp # "yes" THEN w
        ELSE [saveConfig(w, updateCurrentAfterRemove(
                                removeAccounts(config, accountName), accountName))
                 EXCEPT !.ssh = SelectSeq(w.ssh,
                                   LAMBDA line : line # "Host github.com-" \o accountName)]

\* removeCmd deleting the key file without asking: a variant the remove
\* property (C19) must tell from removeCmd
removeCmd_DropKeys(w, accountName, resp, keyResp) ==
    LET config == loadConfig(w.file)
        got == getAccount(config, accountName)
    IN  IF ~got.found THEN Fail(w, "account not found")
        ELSE IF resp # "y" /\ resp # "yes" THEN w
        ELSE [saveConfig(w, updateCurrentAfterRemove(
                                removeAccounts(config, accountName), accountName))
                 EXCEPT !.keys = w.keys \ {got.account.SSHKey}]

\* removeCmd.RunE; resp = the answer to "Are you sure", keyResp = the answer
\* to "remove the SSH key files?"
removeCmd(w, accountName, resp, keyResp) ==
    LET config == loadConfig(w.file)
        got == getAccount(config, accountName)
    IN  IF ~got.found THEN Fail(w, "account not found")
        ELSE IF resp # "y" /\ resp # "yes" THEN w
        ELSE LET w1 == saveConfig(w, updateCurrentAfterRemove(
                                        removeAccounts(config, accountName), accountName))
             IN  IF got.account.SSHKey # "" /\ (keyResp = "y" \/ keyResp = "yes")
                 THEN [w1 EXCEPT !.keys = w1.keys \ {got.account.SSHKey}]
                 ELSE w1

----------------------------------------------------------------------------
(* use.go, global.go *)

isGitRepository(path) == path = RepoPath

\* setGitConfig / setGlobalGitConfig: git config [--global] key value
setGitConfig(w, key, value, repoPath, global) ==
    IF global
    THEN IF key = "user.name" THEN [w EXCEPT !.git.userName = value]
         ELSE [w EXCEPT !.git.userEmail = value]
    ELSE IF key = "user.name" THEN [w EXCEPT !.local.userName = value]
         ELSE [w EXCEPT !.local.userEmail = value]

\* useCmd refusing to work while the current account cannot be resolved: a
\* variant the tolerance property (C8) must tell from useCmd
useCmd_StrictCurrent(w, accountName, path, globalFlag, nameOk, emailOk) ==
    LET config == loadConfig(w.file)
        got == getAccount(config, accountName)
    IN  IF config.CurrentAccount # "" /\ ~getAccount(config, config.CurrentAccount).found
        THEN Fail(w, "current account not found")
        ELSE IF ~got.found THEN Fail(w, "account not found")
        ELSE saveConfig([w EXCEPT !.git.userName = got.account.Username,
                                  !.git.userEmail = got.account.Email],
                        [config EXCEPT !.CurrentAccount = accountName])

\* useCmd looking the account up before it looks at the path: a variant the
\* not-a-repository property (C16) must tell from useCmd
useCmd_LookupFirst(w, accountName, path, globalFlag, nameOk, emailOk) ==
    LET config == loadConfig(w.file)
        got == getAccount(config, accountName)
        global == (path = "")
    IN  IF ~got.found THEN Fail(w, "account not found")
        ELSE IF path # "" /\ ~globalFlag /\ ~isGitRepository(path)
        THEN Fail(w, "not a git repository")
        ELSE IF path # "" /\ globalFlag
        THEN Fail(w, "cannot specify both a path and --global")
        ELSE LET w2 == setGitConfig(setGitConfig(w, "user.name", got.account.Username,
                                                 path, global),
                                    "user.email", got.account.Email, path, global)
             IN  IF global
                 THEN saveConfig(w2, [config EXCEPT !.CurrentAccount = accountName])
                 ELSE w2

\* useCmd recording the account as current also after a switch in one
\* repository: a variant the scope property (C22) must tell from useCmd
useCmd_AlwaysCurrent(w, accountName, path, globalFlag, nameOk, emailOk) ==
    IF path # "" /\ ~globalFlag /\ ~isGitRepository(path)
    THEN Fail(w, "not a git repository")
    ELSE IF path # "" /\ globalFlag
    THEN Fail(w, "cannot specify both a path and --global")
    ELSE LET global == (path = "")
             config == loadConfig(w.file)
             got == getAccount(config, accountName)
         IN  IF ~got.found THEN Fail(w, "account not found")
             ELSE IF ~nameOk THEN Fail(w, "failed to set git user.name")
             ELSE LET w1 == setGitConfig(w, "user.name", got.account.Username, path, global) IN
                  IF ~emailOk THEN Fail(w1, "failed to set git user.email")
                  ELSE saveConfig(setGitConfig(w1, "user.email", got.account.Email,
                                               path, global),
                                  [config EXCEPT !.CurrentAccount = accountName])

\* useCmd.RunE; path = "" when no second argument is given; nameOk, emailOk =
\* the git invocation exits with 0
useCmd(w, accountName, path, globalFlag, nameOk, emailOk) ==
    IF path # "" /\ ~globalFlag /\ ~isGitRepository(path)
    THEN Fail(w, "not a git repository")
    ELSE IF path # "" /\ globalFlag
    THEN Fail(w, "cannot specify both a path and --global")
    ELSE LET global == (path = "")
             config == loadConfig(w.file)
             got == getAccount(config, accountName)
         IN  IF ~got.found THEN Fail(w, "account not found")
             ELSE IF ~nameOk THEN Fail(w, "failed to set git user.name")
             ELSE LET w1 == setGitConfig(w, "user.name", got.account.Username, path, global) IN
                  IF ~emailOk THEN Fail(w1, "failed to set git user.email")
                  ELSE LET w2 == setGitConfig(w1, "user.email", got.account.Email,
                                              path, global)
                       IN  IF global
                           THEN saveConfig(w2, [config EXCEPT !.CurrentAccount = accountName])
                           ELSE w2

\* globalCmd recording the name before it looks the account up: a variant
\* the switch property (C9) must tell from globalCmd
globalCmd_NoLookup(w, accountName, nameOk, emailOk) ==
    LET config == loadConfig(w.file)
        got == getAccount(config, accountName)
        w0 == saveConfig(w, [config EXCEPT !.CurrentAccount = accountName])
    IN  IF ~got.found THEN Fail(w0, "account not found")
        ELSE IF ~nameOk THEN Fail(w0, "failed to set global git user.name")
        ELSE LET w1 == [w0 EXCEPT !.git.userName = got.account.Username] IN
             IF ~emailOk THEN Fail(w1, "failed to set global git user.email")
             ELSE [w1 EXCEPT !.git.userEmail = got.account.Email]

\* globalCmd persisting the current account before it calls git: a variant
\* the step-order property (C23) must tell from globalCmd
globalCmd_SaveFirst(w, accountName, nameOk, emailOk) ==
    LET config == loadConfig(w.file)
        got == getAccount(config, accountName)
    IN  IF ~got.found THEN Fail(w, "account not found")
        ELSE LET w0 == saveConfig(w, [config EXCEPT !.CurrentAccount = accountName]) IN
             IF ~nameOk THEN Fail(w0, "failed to set global git user.name")
             ELSE LET w1 == [w0 EXCEPT !.git.userName = got.account.Username] IN
                  IF ~emailOk THEN Fail(w1, "failed to set global git user.email")
                  ELSE [w1 EXCEPT !.git.userEmail = got.account.Email]

\* globalCmd setting user.email before user.name: a variant the equivalence
\* with use (C26) must tell from globalCmd
globalCmd_EmailFirst(w, accountName, nameOk, emailOk) ==
    LET config == loadConfig(w.file)
        got == getAccount(config, accountName)
    IN  IF ~got.found THEN Fail(w, "account not found")
        ELSE IF ~emailOk THEN Fail(w, "failed to set global git user.email")
        ELSE LET w1 == [w EXCEPT !.git.userEmail = got.account.Email] IN
             IF ~nameOk THEN Fail(w1, "failed to set global git user.name")
             ELSE saveConfig([w1 EXCEPT !.git.userName = got.account.Username],
                             [config EXCEPT !.CurrentAccount = accountName])

\* globalCmd.RunE
globalCmd(w, accountName, nameOk, emailOk) ==
    LET config == loadConfig(w.file)
        got == getAccount(config, accountName)
    IN  IF ~got.found THEN Fail(w, "account not found")
        ELSE IF ~nameOk THEN Fail(w, "failed to set global git user.name")
        ELSE LET w1 == [w EXCEPT !.git.userName = got.account.Username] IN
             IF ~emailOk THEN Fail(w1, "failed to set global git user.email")
             ELSE saveConfig([w1 EXCEPT !.git.userEmail = got.account.Email],
                             [config EXCEPT !.CurrentAccount = accountName])

----------------------------------------------------------------------------
(* migrate.go: the migrate command *)

\* the store after migrateCmd's own save, before it calls checkAndOfferMigration
resetMigration(w) == saveConfig(w, [loadConfig(w.file) EXCEPT !.MigrationDone = FALSE])

\* migrateCmd.RunE
migrateCmd(w, m) == checkAndOfferMigration(resetMigration(w), m)

----------------------------------------------------------------------------
(* global.go: show-includes *)

\* the text of ~/.gitconfig, line by line: the [user] section git keeps,
\* then everything else
gitconfigText(git) ==
    (IF git.userName # "" \/ git.userEmail # ""
     THEN <<"[user]", "\tname = " \o git.userName, "\temail = " \o git.userEmail>>
     ELSE <<>>)
    \o git.lines

\* an item show-includes prints: the gitdir pattern of a stanza, or a path
Printed(kind, text) == [kind |-> kind, text |-> text]

\* the lines printed for the "[includeIf" header line (trimmed)
printGitdir(line) ==
    LET start == Index(line, "\"gitdir:")
        end == Index(SubSeq(line, start + 9, Len(line)), "\"")
    IN  IF start # -1 /\ end # -1
        THEN <<Printed("gitdir", SubSeq(line, start + 9, start + 8 + end))>>
        ELSE <<>>

\* the lines printed for a "path" line (trimmed): strings.SplitN(line, "=", 2)
printPath(line) ==
    IF Contains(line, "=")
    THEN <<Printed("path", TrimSpace(SubSeq(line, Index(line, "=") + 2, Len(line))))>>
    ELSE <<>>

\* the loop of showIncludesCmd from line i on
RECURSIVE ScanIncludes(_, _, _, _)
ScanIncludes(lines, i, inIncludeSection, out) ==
    IF i > Len(lines) THEN out
    ELSE LET line == TrimSpace(lines[i]) IN
         IF HasPrefix(line, "[includeIf")
         THEN ScanIncludes(lines, i + 1, TRUE, out \o printGitdir(line))
         ELSE IF inIncludeSection /\ HasPrefix(line, "path")
         THEN ScanIncludes(lines, i + 1, FALSE, out \o printPath(line))
         ELSE IF HasPrefix(line, "[")
         THEN ScanIncludes(lines, i + 1, FALSE, out)
         ELSE ScanIncludes(lines, i + 1, inIncludeSection, out)

\* what show-includes prints under "Conditional Includes:" for the file
showIncludes(lines) == ScanIncludes(lines, 1, FALSE, <<>>)

\* showIncludesCmd.RunE: it fails when ~/.gitconfig cannot be read
showIncludesCmd(w) ==
    IF gitconfigText(w.git) = <<>> THEN Fail(w, "failed to read global .gitconfig") ELSE w

----------------------------------------------------------------------------
(* directory.go *)

\* filepath.Abs of an absolute path: filepath.Clean drops trailing separators
RECURSIVE Abs(_)
Abs(p) == IF Len(p) > 1 /\ HasSuffix(p, "/") THEN Abs(SubSeq(p, 1, Len(p) - 1)) ELSE p

\* filepath.Join of a clean directory and a file name
Join(dir, file) == IF dir = "/" THEN dir \o file ELSE dir \o "/" \o file

gitDirPattern(dirPath) == IF HasSuffix(dirPath, "/") THEN dirPath ELSE dirPath \o "/"

\* the lines that appending includeSection adds to ~/.gitconfig
includeSection(dirPath, configPath) ==
    <<"[includeIf \"gitdir:" \o gitDirPattern(dirPath) \o "\"]", "\tpath = " \o configPath, "">>

\* "Check if this include already exists": strings.Contains over the file
includeExists(git, dirPath) ==
    \E i \in 1..Len(gitconfigText(git)) :
        Contains(gitconfigText(git)[i], "gitdir:" \o gitDirPattern(dirPath))

\* addConditionalInclude from "Append to global .gitconfig" on
appendInclude(w, dirPath, configPath) ==
    [w EXCEPT !.git.lines = (IF w.git.lines = <<>> THEN <<"">> ELSE w.git.lines)
                            \o includeSection(dirPath, configPath)]

\* addConditionalInclude
addConditionalInclude(w, dirPath, configPath) ==
    IF includeExists(w.git, dirPath) THEN w
    ELSE [w EXCEPT !.git.lines = (IF w.git.lines = <<>> THEN <<"">> ELSE w.git.lines)
                                 \o includeSection(dirPath, configPath)]

\* the lines of the directory's .gitconfig
gitConfigContent(account) ==
    <<"[user]", "\tname = " \o account.Username, "\temail = " \o account.Email, "">>

\* setupDirectoryConfig
setupDirectoryConfig(w, dirPath, account) ==
    LET gitConfigPath == Join(dirPath, ".gitconfig")
        w1 == [w EXCEPT !.dirs[dirPath] = gitConfigContent(account)]
    IN  addConditionalInclude(w1, dirPath, gitConfigPath)

\* interactiveDirectoryConfig; resp = the number typed at "Select account number"
interactiveDirectoryConfig(w, currentDir, resp) ==
    LET config == loadConfig(w.file) IN
    IF Len(config.Accounts) = 0 THEN Fail(w, "no accounts configured")
    ELSE IF resp \notin 1..Len(config.Accounts) THEN Fail(w, "invalid selection")
    ELSE setupDirectoryConfig(w, currentDir, config.Accounts[resp])

\* dirConfigCmd.RunE; args = <<>> or <<directory, account-name>>; currentDir
\* and resp are used by the interactive mode only
dirConfigCmd(w, args, currentDir, resp) ==
    IF Len(args) = 0 THEN interactiveDirectoryConfig(w, currentDir, resp)
    ELSE IF Len(args) # 2 THEN Fail(w, "provide no arguments or both")
    ELSE LET absPath == Abs(args[1])
             got == getAccount(loadConfig(w.file), args[2])
         IN  IF ~got.found THEN Fail(w, "account not found")
             ELSE setupDirectoryConfig(w, absPath, got.account)

----------------------------------------------------------------------------
(* providers.go: custom providers *)

\* no Provider: the nil createCustomProvider returns with an error
NoProvider ==
    [Name |-> "", DisplayName |-> "", Hostname |-> "", SSHUser |-> "",
     SSHPort |-> "", WebURL |-> "", KeySuffix |-> ""]

\* the class [a-zA-Z0-9] of the hostname pattern
Alnum ==
    {"a", "b", "c", "d", "e", "f", "g", "h", "i", "j", "k", "l", "m", "n", "o", "p",
     "q", "r", "s", "t", "u", "v", "w", "x", "y", "z",
     "A", "B", "C", "D", "E", "F", "G", "H", "I", "J", "K", "L", "M", "N", "O", "P",
     "Q", "R", "S", "T", "U", "V", "W", "X", "Y", "Z",
     "0", "1", "2", "3", "4", "5", "6", "7", "8", "9"}

\* isValidHostname: ^[a-zA-Z0-9]([a-zA-Z0-9\-\.]*[a-zA-Z0-9])?$ ; a string
\* that matches holds no "://", so the url.Parse branch is never taken
isValidHostname(hostname) ==
    /\ hostname # ""
    /\ SubSeq(hostname, 1, 1) \in Alnum
    /\ SubSeq(hostname, Len(hostname), Len(hostname)) \in Alnum
    /\ \A i \in 1..Len(hostname) : SubSeq(hostname, i, i) \in Alnum \cup {"-", "."}

\* strings.Split(s, sep) for a non-empty sep
RECURSIVE Split(_, _)
Split(s, sep) ==
    LET i == Index(s, sep)
    IN  IF i = -1 THEN <<s>>
        ELSE <<SubSeq(s, 1, i)>> \o Split(SubSeq(s, i + Len(sep) + 1, Len(s)), sep)

\* generateKeySuffix without the truncation of the first part: a variant the
\* key-suffix property (C20) must tell from generateKeySuffix
generateKeySuffix_NoTruncate(hostname) ==
    LET h == TrimPrefix(TrimPrefix(TrimPrefix(hostname, "git."), "code."), "source.")
        parts == Split(h, ".")
    IN  IF Len(parts) >= 2 THEN parts[1]
        ELSE IF Len(h) > 8 THEN SubSeq(h, 1, 8)
        ELSE h

\* generateKeySuffix
generateKeySuffix(hostname) ==
    LET h == TrimPrefix(TrimPrefix(TrimPrefix(hostname, "git."), "code."), "source.")
        parts == Split(h, ".")
    IN  IF Len(parts) >= 2
        THEN LET suffix == parts[1]
             IN  IF Len(suffix) > 8 THEN SubSeq(suffix, 1, 8) ELSE suffix
        ELSE IF Len(h) > 8 THEN SubSeq(h, 1, 8)
        ELSE h

\* createCustomProvider; every argument is what one Scanf("%s") yielded, ""
\* when it failed or read nothing.  The result is the Provider and the error.
createCustomProvider(hostname, displayName, sshUser, port, webURL, confirm) ==
    IF hostname = "" THEN [provider |-> NoProvider, err |-> "invalid hostname"]
    ELSE IF ~isValidHostname(hostname)
    THEN [provider |-> NoProvider, err |-> "invalid hostname format"]
    ELSE IF confirm = "n" \/ confirm = "N"
    THEN [provider |-> NoProvider, err |-> "configuration cancelled"]
    ELSE [provider |->
             [Name |-> "custom",
              DisplayName |-> (IF displayName = "" THEN hostname ELSE displayName),
              Hostname |-> hostname,
              SSHUser |-> (IF sshUser = "" THEN "git" ELSE sshUser),
              SSHPort |-> (IF port = "" \/ port = "22" THEN "" ELSE port),
              WebURL |-> (IF webURL = "" THEN "https://" \o hostname ELSE webURL),
              KeySuffix |-> generateKeySuffix(hostname)],
          err |-> ""]

----------------------------------------------------------------------------
(* Processes of the tool that run at the same time *)

Procs == {1, 2}

\* a process that is not inside a command
Idle ==
    [pc |-> "idle", config |-> EmptyConfig, account |-> Account("", "", "", ""),
     dir |-> "", exists |-> FALSE]

----------------------------------------------------------------------------
(* The commands as actions *)

DirArgs == {"/w", "/w/", "/w/s", "/v"}        \* directories typed at config
CleanDirs == {Abs(d) : d \in DirArgs}

\* what is typed at the prompts and flags for email and username
Identities == {<<"w@x.io", "alice">>, <<"h@x.io", "bob">>}
Answers == {"y", "n"}

Cmd(op, name, email, username, key, path) ==
    [op |-> op, name |-> name, email |-> email, username |-> username, key |-> key,
     path |-> path]

\* the command cmd has run and left the world w
Wrote(w, cmd) ==
    /\ Len(loadConfig(w.file).Accounts) <= MaxAccounts
    /\ Len(w.ssh) <= 1 + 6 * MaxSSHBlocks
    /\ Len(w.git.lines) <= 1 + 3 * MaxIncludes
    /\ configFile' = w.file
    /\ memConfig' = w.mem
    /\ keyFiles' = w.keys
    /\ sshConfig' = w.ssh
    /\ gitconfig' = w.git
    /\ dirConfig' = w.dirs
    /\ localConfig' = w.local
    /\ result' = (IF w.err = "" THEN "ok" ELSE w.err)
    /\ lastCmd' = cmd
    /\ provider' = provider

\* a command run from its start to its end while no other process runs
Ran(w, cmd) == Wrote(w, cmd) /\ procs' = procs

\* krakn list (its handler changes nothing)
List ==
    \E m \in MigrationInputs(World) :
        Ran(listCmd(PersistentPreRun(World, m)), Cmd("list", "", "", "", "", ""))

\* krakn add, typing a name of names and a key path of keyInputs, answering
\* resp to "append this config to ~/.ssh/config?"; git and ssh-keygen exit
\* with a status of exits
AddStep(names, keyInputs, resp, exits) ==
    \E name \in names, id \in Identities, sshKeyInput \in keyInputs,
       genResp \in Answers, keygenOk \in exits, m \in MigrationInputs(World) :
        Ran(addCmd(PersistentPreRun(World, m), name, id[1], id[2], sshKeyInput,
                   genResp, keygenOk, resp),
            Cmd("add", name, id[1], id[2],
                IF sshKeyInput # "" THEN sshKeyInput ELSE DefaultKeyPath(name), ""))

\* krakn generate-key --name .. --email ..
GenerateKeyStep(names, resp, exits) ==
    \E name \in names, id \in Identities, keygenOk \in exits,
       saveResp \in Answers, m \in MigrationInputs(World) :
        Ran(generateKeyCmd(PersistentPreRun(World, m), name, id[1], keygenOk, resp,
                           saveResp, id[2]),
            Cmd("generate-key", name, id[1], id[2], DefaultKeyPath(name), ""))

\* krakn use <name> [path] [--global]
UseStep(names, paths, exits) ==
    \E name \in names, path \in paths, globalFlag \in BOOLEAN,
       nameOk \in exits, emailOk \in exits, m \in MigrationInputs(World) :
        Ran(useCmd(PersistentPreRun(World, m), name, path, globalFlag, nameOk, emailOk),
            Cmd("use", name, "", "", "", path))

\* krakn global <name>
GlobalStep(names, exits) ==
    \E name \in names, nameOk \in exits, emailOk \in exits,
       m \in MigrationInputs(World) :
        Ran(globalCmd(PersistentPreRun(World, m), name, nameOk, emailOk),
            Cmd("global", name, "", "", "", ""))

\* krakn remove <name>
RemoveStep(names) ==
    \E name \in names, resp \in Answers, keyResp \in Answers,
       m \in MigrationInputs(World) :
        Ran(removeCmd(PersistentPreRun(World, m), name, resp, keyResp),
            Cmd("remove", name, "", "", "", ""))

\* krakn migrate (PersistentPreRun skips its check for this command)
Migrate ==
    \E m \in MigrationInputs(resetMigration(World)) :
        Ran(migrateCmd(World, m), Cmd("migrate", "", "", "", "", ""))

\* krakn config (interactive, in the directory currentDir) and
\* krakn config <directory> <account-name>
DirConfig ==
    \/ \E currentDir \in CleanDirs, resp \in 0..MaxAccounts, m \in MigrationInputs(World) :
          Ran(dirConfigCmd(PersistentPreRun(World, m), <<>>, currentDir, resp),
              Cmd("config", "", "", "", "", currentDir))
    \/ \E args \in {<<d>> : d \in DirArgs} \cup (DirArgs \X Names),
          m \in MigrationInputs(World) :
          Ran(dirConfigCmd(PersistentPreRun(World, m), args, HomeDir, 0),
              Cmd("config", IF Len(args) = 2 THEN args[2] ELSE "", "", "", "",
                  Abs(args[1])))

\* The commands of Spec: every external program exits with 0, the key path
\* add proposes is accepted, and the offer to append to ~/.ssh/config is
\* declined.
Add == AddStep(Names, {""}, "n", {TRUE})
GenerateKey == GenerateKeyStep(Names, "n", {TRUE})
Use == UseStep(StoreNames, {""}, {TRUE})
Global == GlobalStep(StoreNames, {TRUE})
Remove == RemoveStep(StoreNames)

----------------------------------------------------------------------------
(* The specifications *)

NoCmd == Cmd("", "", "", "", "", "")

\* The machine before the tool ever ran: no store, no keys, no ~/.ssh/config,
\* and a global git identity that is either unset or the user's own.
Init ==
    /\ configFile = NoFile
    /\ memConfig = EmptyConfig
    /\ keyFiles = {}
    /\ sshConfig = <<>>
    /\ gitconfig \in {[userName |-> "", userEmail |-> "", lines |-> <<>>],
                      [userName |-> "Al", userEmail |-> "al@x.io", lines |-> <<>>]}
    /\ dirConfig = [d \in CleanDirs |-> <<>>]
    /\ localConfig = [userName |-> "", userEmail |-> ""]
    /\ lastCmd = NoCmd
    /\ result = ""
    /\ provider = NoProvider
    /\ procs = [p \in Procs |-> Idle]

Next == List \/ Add \/ GenerateKey \/ Use \/ Global \/ Remove \/ Migrate

Spec == Init /\ [][Next]_vars

\* The commands of SpecSSH: as in Spec, but the offer to append the Host
\* block to ~/.ssh/config is accepted and add may be given a key path of
\* the user's own.
AddAppend == AddStep(Names, {"", CustomKey}, "y", {TRUE})
GenerateKeyAppend == GenerateKeyStep(Names, "y", {TRUE})

NextSSH == AddAppend \/ GenerateKeyAppend \/ Remove

SpecSSH == Init /\ [][NextSSH]_vars

\* addConditionalInclude called on its own for the directory as typed
IncludeCall ==
    \E d \in DirArgs :
        Ran(addConditionalInclude(World, d, Join(Abs(d), ".gitconfig")),
            Cmd("include", "", "", "", "", d))

\* The commands of SpecDir: accounts are added and directories configured.
AddWork == AddStep({"work"}, {""}, "n", {TRUE})

NextDir == AddWork \/ DirConfig \/ IncludeCall

SpecDir == Init /\ [][NextDir]_vars

\* The commands of SpecBytes: the names typed may hold a byte that is not
\* valid UTF-8.
ByteNames == {BadName, "w?", "work"}
AddBytes == AddStep(ByteNames, {""}, "n", {TRUE})
UseBytes == UseStep(ByteNames, {""}, {TRUE})
RemoveBytes == RemoveStep(ByteNames)

NextBytes == List \/ AddBytes \/ UseBytes \/ RemoveBytes

SpecBytes == Init /\ [][NextBytes]_vars

\* SpecGhost starts from a store edited by hand: one or two accounts with
\* their key files, and a currentAccount that names none of them.
GhostStores ==
    LET work == Account("work", "w@x.io", DefaultKeyPath("work"), "alice")
        home == Account("home", "h@x.io", DefaultKeyPath("home"), "bob")
    IN  {[Accounts |-> accounts, AccountsNil |-> FALSE, CurrentAccount |-> "ghost",
          MigrationDone |-> TRUE] : accounts \in {<<work>>, <<work, home>>, <<home, work>>}}

InitGhost ==
    /\ \E c \in GhostStores :
          /\ configFile = [exists |-> TRUE, doc |-> Marshal(c)]
          /\ memConfig = c
          /\ keyFiles = {c.Accounts[i].SSHKey : i \in 1..Len(c.Accounts)}
    /\ sshConfig = <<>>
    /\ gitconfig \in {[userName |-> "", userEmail |-> "", lines |-> <<>>],
                      [userName |-> "Al", userEmail |-> "al@x.io", lines |-> <<>>]}
    /\ dirConfig = [d \in CleanDirs |-> <<>>]
    /\ localConfig = [userName |-> "", userEmail |-> ""]
    /\ lastCmd = NoCmd
    /\ result = ""
    /\ provider = NoProvider
    /\ procs = [p \in Procs |-> Idle]

SpecGhost == InitGhost /\ [][Next]_vars

\* SpecDiscover starts from an ~/.ssh/config the user wrote: any sequence of
\* at most MaxSSHLines of these lines.  The commands run the discovery.
SSHLines ==
    {"Host github.com-work", "Host github.com-home", "Host github.com-",
     "Host gitlab.com", "  User git", "  User bob"}

InitDiscover ==
    /\ configFile = NoFile
    /\ memConfig = EmptyConfig
    /\ keyFiles = {}
    /\ sshConfig \in UNION {[1..n -> SSHLines] : n \in 0..MaxSSHLines}
    /\ gitconfig \in {[userName |-> "", userEmail |-> "", lines |-> <<>>],
                      [userName |-> "Al", userEmail |-> "al@x.io", lines |-> <<>>]}
    /\ dirConfig = [d \in CleanDirs |-> <<>>]
    /\ localConfig = [userName |-> "", userEmail |-> ""]
    /\ lastCmd = NoCmd
    /\ result = ""
    /\ provider = NoProvider
    /\ procs = [p \in Procs |-> Idle]

NextDiscover == List \/ Migrate

SpecDiscover == InitDiscover /\ [][NextDiscover]_vars

\* krakn show-includes
ShowIncludes ==
    \E m \in MigrationInputs(World) :
        Ran(showIncludesCmd(PersistentPreRun(World, m)),
            Cmd("show-includes", "", "", "", "", ""))

\* SpecIncludes starts from a ~/.gitconfig the user wrote: any sequence of at
\* most MaxGitLines of these lines.
GitLines ==
    {"[includeIf \"gitdir:/w/\"]", "[includeIf \"gitdir:/v/\"]", "[include]",
     "\tpath = /w/.gitconfig", "\tname = x"}

InitIncludes ==
    /\ configFile = NoFile
    /\ memConfig = EmptyConfig
    /\ keyFiles = {}
    /\ sshConfig = <<>>
    /\ \E lines \in UNION {[1..n -> GitLines] : n \in 0..MaxGitLines} :
          gitconfig = [userName |-> "", userEmail |-> "", lines |-> lines]
    /\ dirConfig = [d \in CleanDirs |-> <<>>]
    /\ localConfig = [userName |-> "", userEmail |-> ""]
    /\ lastCmd = NoCmd
    /\ result = ""
    /\ provider = NoProvider
    /\ procs = [p \in Procs |-> Idle]

NextIncludes == ShowIncludes \/ IncludeCall

SpecIncludes == InitIncludes /\ [][NextIncludes]_vars

\* The commands of SpecLocal: use is also given a path, that of a repository
\* or that of a directory without .git.
UseLocal == UseStep(StoreNames, {"", RepoPath, PlainPath}, {TRUE})

NextLocal == Add \/ UseLocal \/ Remove

SpecLocal == Init /\ [][NextLocal]_vars

\* SpecProvider: the custom-provider dialogue, run with any hostname made of
\* at most MaxPieces of these pieces.
Pieces == {"git.", "code.", "source.", "company", "shortdomain", ".com", "a", ".", "b", "-"}

RECURSIVE Concat(_)
Concat(pieces) == IF pieces = <<>> THEN "" ELSE Head(pieces) \o Concat(Tail(pieces))

Hostnames == {Concat(pieces) : pieces \in UNION {[1..n -> Pieces] : n \in 0..MaxPieces}}

\* the dialogue is about to start: the hostname is the one that will be typed
InitProvider ==
    /\ configFile = NoFile
    /\ memConfig = EmptyConfig
    /\ keyFiles = {}
    /\ sshConfig = <<>>
    /\ gitconfig = [userName |-> "", userEmail |-> "", lines |-> <<>>]
    /\ dirConfig = [d \in CleanDirs |-> <<>>]
    /\ localConfig = [userName |-> "", userEmail |-> ""]
    /\ lastCmd = NoCmd
    /\ result = ""
    /\ provider \in {[NoProvider EXCEPT !.Hostname = hostname] : hostname \in Hostnames}
    /\ procs = [p \in Procs |-> Idle]

\* one run of the dialogue
CreateCustomProvider ==
    /\ lastCmd = NoCmd
    /\ \E displayName \in {"", "Corp"}, port \in {"", "22", "2222"}, confirm \in Answers :
          LET r == createCustomProvider(provider.Hostname, displayName, "", port, "", confirm)
          IN  /\ provider' = r.provider
              /\ result' = (IF r.err = "" THEN "ok" ELSE r.err)
              /\ lastCmd' = Cmd("provider", provider.Hostname, "", "", "", "")
              /\ UNCHANGED <<configFile, memConfig, keyFiles, sshConfig, gitconfig,
                             dirConfig, localConfig, procs>>

SpecProvider == InitProvider /\ [][CreateCustomProvider]_vars

\* SpecExit: accounts are added and removed and the global identity is
\* switched, git exiting with 0 or not in every invocation.
NextExit ==
    Add \/ UseStep(StoreNames, {""}, BOOLEAN) \/ GlobalStep(StoreNames, BOOLEAN) \/ Remove

SpecExit == Init /\ [][NextExit]_vars

\* SpecRace: two processes run krakn add side by side.  A process takes two
\* steps, between which the other one may run: up to and with its loadConfig
\* (the first-run check, the questions, the key), then config.addAccount
\* with its saveConfig.
AddLoad(p) ==
    /\ procs[p].pc \in {"idle", "done"}
    /\ \E name \in Names, id \in Identities, m \in MigrationInputs(World) :
          LET w == addBegin(PersistentPreRun(World, m), name, id[1], id[2], "", "y",
                            TRUE, "n")
          IN  /\ w.err = ""
              /\ configFile' = w.file
              /\ memConfig' = w.mem
              /\ keyFiles' = w.keys
              /\ sshConfig' = w.ssh
              /\ procs' = [procs EXCEPT ![p] =
                              [Idle EXCEPT !.pc = "loaded",
                                           !.config = loadConfig(w.file),
                                           !.account = Account(name, id[1],
                                                               DefaultKeyPath(name), id[2])]]
              /\ UNCHANGED <<gitconfig, dirConfig, localConfig, lastCmd, result, provider>>

AddSave(p) ==
    /\ procs[p].pc = "loaded"
    /\ Wrote(addEnd(World, procs[p].config, procs[p].account),
             Cmd("add", procs[p].account.Name, procs[p].account.Email,
                 procs[p].account.Username, procs[p].account.SSHKey, ""))
    /\ procs' = [procs EXCEPT ![p].pc = "done"]

NextRace == \E p \in Procs : AddLoad(p) \/ AddSave(p)

SpecRace == Init /\ [][NextRace]_vars

\* SpecFirstRun: the first-run check of one command, prompt by prompt, on a
\* machine the tool never ran on.  The standard input holds left lines still
\* to be read, at most MaxInput of them and each any of InputLines; once
\* they are used up the input has ended and every ReadString returns
\* nothing, which the code takes for an empty line.
InputLines == {"n", "0", "1", "2", "1,x", "work"}

\* reader.ReadString with strings.TrimSpace, line being the next line if any
ReadLine(left, line) == IF left = 0 THEN "" ELSE TrimSpace(line)

Rest(left) == IF left = 0 THEN 0 ELSE left - 1

Digits == <<"0", "1", "2", "3", "4", "5", "6", "7", "8", "9">>

\* strconv.Atoi of an unsigned number: ok = no error
RECURSIVE Atoi(_)
Atoi(s) ==
    LET IsDigit(c) == \E d \in 1..10 : Digits[d] = c
        DigitValue(c) == (CHOOSE d \in 1..10 : Digits[d] = c) - 1
    IN  IF s = "" \/ \E i \in 1..Len(s) : ~IsDigit(SubSeq(s, i, i))
        THEN [ok |-> FALSE, value |-> 0]
        ELSE IF Len(s) = 1 THEN [ok |-> TRUE, value |-> DigitValue(s)]
        ELSE [ok |-> TRUE,
              value |-> 10 * Atoi(SubSeq(s, 1, Len(s) - 1)).value
                        + DigitValue(SubSeq(s, Len(s), Len(s)))]

\* strconv.Itoa of a natural number
RECURSIVE Itoa(_)
Itoa(n) == IF n < 10 THEN Digits[n + 1] ELSE Itoa(n \div 10) \o Digits[(n % 10) + 1]

\* "Parse selection": the loop over the choices from the i-th on
RECURSIVE parseChoices(_, _, _, _)
parseChoices(choices, i, discovered, selected) ==
    IF i > Len(choices) THEN [valid |-> TRUE, selected |-> selected]
    ELSE LET index == Atoi(TrimSpace(choices[i]))
         IN  IF ~index.ok \/ index.value < 1 \/ index.value > Len(discovered)
             THEN [valid |-> FALSE, selected |-> selected]
             ELSE parseChoices(choices, i + 1, discovered,
                               Append(selected, discovered[index.value]))

\* one turn of the loop of selectAccountsToMigrate on the line input;
\* selected is what the turn before left.  done = the function returns
selectAccountsTurn(input, discovered, selected) ==
    IF input = "0" THEN [done |-> TRUE, selected |-> selected]
    ELSE IF input = Itoa(Len(discovered) + 1) THEN [done |-> TRUE, selected |-> discovered]
    ELSE LET parsed == parseChoices(Split(input, ","), 1, discovered, <<>>)
         IN  [done |-> parsed.valid, selected |-> parsed.selected]

\* the existing keys in the order of os.ReadDir
RECURSIVE SortedKeys(_)
SortedKeys(keys) ==
    IF keys = {} THEN <<>>
    ELSE LET k == CHOOSE x \in keys : \A y \in keys : Len(x) <= Len(y)
         IN  <<k>> \o SortedKeys(keys \ {k})

\* one turn of selectSSHKey on the line input; without keys in ~/.ssh the
\* line is returned as it is
selectSSHKeyTurn(keys, input) ==
    LET listed == SortedKeys(existingKeys(keys))
        index == Atoi(input)
        path == IF HasPrefix(input, "~/")
                THEN Join(HomeDir, SubSeq(input, 3, Len(input))) ELSE input
    IN  IF listed = <<>> THEN [done |-> TRUE, key |-> input]
        ELSE IF input = "" \/ input = "0" THEN [done |-> TRUE, key |-> ""]
        ELSE IF index.ok
        THEN IF index.value > 0 /\ index.value <= Len(listed)
             THEN [done |-> TRUE, key |-> listed[index.value]]
             ELSE [done |-> FALSE, key |-> ""]
        ELSE IF path \in keys THEN [done |-> TRUE, key |-> path]
        ELSE [done |-> FALSE, key |-> ""]

\* the questions of migrateAccount before selectSSHKey; lines = the next
\* lines of the standard input
migrateAccountPrompts(discovered, left, lines) ==
    LET typedName == ReadLine(left, lines[1])
        s1 == Rest(left)
        s2 == IF discovered.Email = "" THEN Rest(s1) ELSE s1
        typedUsername == ReadLine(s2, lines[3])
        s3 == IF discovered.Username = "" THEN Rest(s2) ELSE s2
    IN  [Name |-> IF typedName # "" THEN typedName
                  ELSE IF discovered.Username # "" THEN discovered.Username
                  ELSE "default",
         Email |-> IF discovered.Email = "" THEN ReadLine(s1, lines[2])
                   ELSE discovered.Email,
         Username |-> IF discovered.Username # "" THEN discovered.Username
                      ELSE IF typedUsername # "" THEN typedUsername
                      ELSE IF discovered.Name # "" THEN discovered.Name
                      ELSE "",
         left |-> s3]

\* the process that runs the first-run check
FirstRun(pc, left) ==
    [pc |-> pc, left |-> left, discovered |-> <<>>, selected |-> <<>>,
     migrated |-> <<>>, pending |-> [Name |-> "", Email |-> "", Username |-> ""]]

InitFirstRun ==
    /\ configFile = NoFile
    /\ memConfig = EmptyConfig
    /\ keyFiles \in {{}, {DefaultKeyPath("work")}}
    /\ sshConfig \in {<<>>, <<"Host github.com-work", "  User git">>}
    /\ gitconfig \in {[userName |-> "", userEmail |-> "", lines |-> <<>>],
                      [userName |-> "Al", userEmail |-> "al@x.io", lines |-> <<>>]}
    /\ dirConfig = [d \in CleanDirs |-> <<>>]
    /\ localConfig = [userName |-> "", userEmail |-> ""]
    /\ lastCmd = NoCmd
    /\ result = ""
    /\ provider = NoProvider
    /\ \E left \in 0..MaxInput :
          procs = [p \in Procs |-> IF p = 1 THEN FirstRun("start", left) ELSE Idle]

\* process 1 goes on as me, the store being left as in w
Prompted(w, me) ==
    /\ configFile' = w.file
    /\ memConfig' = w.mem
    /\ procs' = [procs EXCEPT ![1] = me]
    /\ UNCHANGED <<keyFiles, sshConfig, gitconfig, dirConfig, localConfig, lastCmd,
                   result, provider>>

\* checkAndOfferMigration up to the answer to "Would you like to migrate"
Offer ==
    \E line \in InputLines :
        LET me == procs[1]
            config == loadConfig(configFile)
            done == [config EXCEPT !.MigrationDone = TRUE]
            discovered == discoverExistingAccounts(gitconfig, sshConfig)
            resp == ReadLine(me.left, line)
        IN  /\ me.pc = "start"
            /\ IF config.MigrationDone \/ Len(config.Accounts) > 0
               THEN Prompted(World, [me EXCEPT !.pc = "returned"])
               ELSE IF Len(discovered) = 0
               THEN Prompted(saveConfig(World, done), [me EXCEPT !.pc = "returned"])
               ELSE IF resp = "n" \/ resp = "no"
               THEN Prompted(saveConfig(World, done),
                             [me EXCEPT !.pc = "returned", !.left = Rest(me.left)])
               ELSE Prompted(World, [me EXCEPT !.pc = "select", !.left = Rest(me.left),
                                               !.discovered = discovered])

\* selectAccountsToMigrate: "Enter your choice(s)" and the line read
Select ==
    \E line \in InputLines :
        LET me == procs[1]
            turn == selectAccountsTurn(ReadLine(me.left, line), me.discovered, me.selected)
        IN  /\ me.pc = "select"
            /\ Prompted(World, [me EXCEPT !.left = Rest(me.left),
                                          !.selected = turn.selected,
                                          !.pc = IF turn.done THEN "selected" ELSE "invalid"])

\* selectAccountsToMigrate: "Invalid choice" printed, the loop starts over
SelectAgain ==
    /\ procs[1].pc = "invalid"
    /\ Prompted(World, [procs[1] EXCEPT !.pc = "select"])

\* migrateAccount for the next selected account, up to selectSSHKey
MigratePrompts ==
    \E lines \in [1..3 -> InputLines] :
        LET me == procs[1]
            typed == migrateAccountPrompts(Head(me.selected), me.left, lines)
        IN  /\ me.pc = "selected"
            /\ me.selected # <<>>
            /\ Prompted(World, [me EXCEPT !.pc = "key", !.left = typed.left,
                                          !.pending = [Name |-> typed.Name,
                                                       Email |-> typed.Email,
                                                       Username |-> typed.Username]])

\* selectSSHKey: "Select SSH key" and the line read; a line that is refused
\* starts the loop over, a line that is taken ends migrateAccount
SelectKey ==
    \E line \in InputLines :
        LET me == procs[1]
            turn == selectSSHKeyTurn(keyFiles, ReadLine(me.left, line))
        IN  /\ me.pc = "key"
            /\ IF turn.done
               THEN Prompted(World,
                        [me EXCEPT !.pc = "selected", !.left = Rest(me.left),
                                   !.selected = Tail(me.selected),
                                   !.migrated = Append(me.migrated,
                                       Account(me.pending.Name, me.pending.Email,
                                               turn.key, me.pending.Username))])
               ELSE Prompted(World, [me EXCEPT !.left = Rest(me.left)])

\* checkAndOfferMigration after the selection: the store is saved and the
\* command that started the check goes on
Finish ==
    LET me == procs[1]
        config == loadConfig(configFile)
        done == [config EXCEPT !.MigrationDone = TRUE]
        accounts == config.Accounts \o me.migrated
    IN  /\ me.pc = "selected"
        /\ me.selected = <<>>
        /\ IF me.migrated = <<>>
           THEN Prompted(saveConfig(World, done), [me EXCEPT !.pc = "returned"])
           ELSE Prompted(saveConfig(World, [done EXCEPT !.Accounts = accounts,
                                                        !.AccountsNil = FALSE,
                                                        !.CurrentAccount = accounts[1].Name]),
                         [me EXCEPT !.pc = "returned"])

NextFirstRun ==
    Offer \/ Select \/ SelectAgain \/ MigratePrompts \/ SelectKey \/ Finish

\* the process is never suspended for good: it takes its next step
SpecFirstRun == InitFirstRun /\ [][NextFirstRun]_vars /\ WF_vars(NextFirstRun)

\* SpecIncludeRace: two processes run addConditionalInclude side by side.  A
\* process takes two steps, between which the other one may run: it reads
\* ~/.gitconfig and looks for the pattern, then it appends its stanza.
RaceDirs == {"/w", "/w/", "/v"}

IncludeCheck(p) ==
    /\ procs[p].pc \in {"idle", "done"}
    /\ \E d \in RaceDirs :
          procs' = [procs EXCEPT ![p] =
                      [Idle EXCEPT !.pc = IF includeExists(gitconfig, d) THEN "done"
                                          ELSE "checked",
                                   !.dir = d,
                                   !.exists = includeExists(gitconfig, d)]]
    /\ UNCHANGED <<configFile, memConfig, keyFiles, sshConfig, gitconfig, dirConfig,
                   localConfig, lastCmd, result, provider>>

IncludeAppend(p) ==
    /\ procs[p].pc = "checked"
    /\ Wrote(appendInclude(World, procs[p].dir, Join(Abs(procs[p].dir), ".gitconfig")),
             Cmd("include", "", "", "", "", procs[p].dir))
    /\ procs' = [procs EXCEPT ![p].pc = "done"]

NextIncludeRace == \E p \in Procs : IncludeCheck(p) \/ IncludeAppend(p)

SpecIncludeRace == Init /\ [][NextIncludeRace]_vars

----------------------------------------------------------------------------
(* The store, as the claims speak of it *)

Store == loadConfig(configFile)

NamesOf(accounts) == {accounts[i].Name : i \in 1..Len(accounts)}

HasAccount(c, name) == name \in NamesOf(c.Accounts)

----------------------------------------------------------------------------
\* C1: account names are unique within the persisted store: no two entries
\* of the account sequence have the same name.
C1_NamesUnique ==
    \A i, j \in 1..Len(Store.Accounts) :
        Store.Accounts[i].Name = Store.Accounts[j].Name => i = j

----------------------------------------------------------------------------
\* C2: in every reachable store, currentAccount is empty or the name of an
\* account of the account sequence.
C2_CurrentIsAccount ==
    Store.CurrentAccount = "" \/ HasAccount(Store, Store.CurrentAccount)

\* a confirmed remove has just deleted an account and the store still has a
\* current account
C2_Witness ==
    /\ lastCmd.op = "remove"
    /\ result = "ok"
    /\ ~HasAccount(Store, lastCmd.name)
    /\ Store.CurrentAccount # ""

----------------------------------------------------------------------------
\* C3: add with the name of an existing entry overwrites that entry in
\* place: the sequence keeps its length, the entry at the same index holds
\* the new account's fields, every other entry is unchanged and stays where
\* it was.
C3_OverwriteStep ==
    LET pre == Store
        post == loadConfig(configFile')
        i == IndexOf(pre.Accounts, lastCmd'.name)
    IN  (lastCmd'.op = "add" /\ result' = "ok" /\ i # 0) =>
            /\ Len(post.Accounts) = Len(pre.Accounts)
            /\ post.Accounts[i] =
                   Account(lastCmd'.name, lastCmd'.email, lastCmd'.key, lastCmd'.username)
            /\ \A j \in 1..Len(pre.Accounts) : j # i => post.Accounts[j] = pre.Accounts[j]

C3_OverwriteInPlace == [][C3_OverwriteStep]_vars

\* add has just succeeded for the name of the first of two entries: add
\* appends a new name at the end, so the first entry was overwritten
C3_Witness ==
    /\ lastCmd.op = "add"
    /\ result = "ok"
    /\ Len(Store.Accounts) = 2
    /\ Store.Accounts[1].Name = lastCmd.name
    /\ Store.Accounts[2].Name # lastCmd.name

----------------------------------------------------------------------------
\* C4: appending the host alias for the same account again leaves exactly
\* one "Host github.com-<name>" line in ~/.ssh/config: no alias has more
\* than one Host line, however the tool reaches the append.
HostLines(ssh, name) ==
    {i \in 1..Len(ssh) : TrimSpace(ssh[i]) = "Host github.com-" \o name}

C4_OneHostBlock == \A name \in Names : Cardinality(HostLines(sshConfig, name)) <= 1

----------------------------------------------------------------------------
\* C5: after a call of addConditionalInclude for a directory, given with or
\* without a trailing separator, through config or on its own, ~/.gitconfig
\* holds exactly one includeIf stanza for that directory.
StanzaHeader(dirPath) == "[includeIf \"gitdir:" \o gitDirPattern(dirPath) \o "\"]"

StanzaLines(git, dirPath) ==
    {i \in 1..Len(git.lines) : git.lines[i] = StanzaHeader(dirPath)}

C5_OneStanzaPerDirectory ==
    (lastCmd.op \in {"config", "include"} /\ result = "ok")
        => Cardinality(StanzaLines(gitconfig, lastCmd.path)) = 1

----------------------------------------------------------------------------
\* C6: after a successful config of directory D, ~/.gitconfig holds a stanza
\* whose gitdir pattern is exactly D/ and whose path is D/.gitconfig.
C6_StanzaPresent ==
    (lastCmd.op = "config" /\ result = "ok")
        => \E i \in StanzaLines(gitconfig, lastCmd.path) :
               /\ i < Len(gitconfig.lines)
               /\ gitconfig.lines[i + 1] = "\tpath = " \o Join(lastCmd.path, ".gitconfig")

----------------------------------------------------------------------------
\* C7: loading the store that was saved yields the account sequence, the
\* currentAccount and the migrationDone that were handed to saveConfig.
C7_RoundTrip ==
    /\ Store.Accounts = memConfig.Accounts
    /\ Store.CurrentAccount = memConfig.CurrentAccount
    /\ Store.MigrationDone = memConfig.MigrationDone

----------------------------------------------------------------------------
\* C8: while currentAccount names no account of the store, the lookup of
\* that name finds nothing, list marks no account as current, and add, use,
\* global and remove for the existing accounts end as they end on the same
\* store with an empty currentAccount: the same error or success and the
\* same files, a currentAccount that names no account counting as empty.
Dangling(c) == c.CurrentAccount # "" /\ ~HasAccount(c, c.CurrentAccount)

\* the store of w with a currentAccount that names no account emptied
Forget(w) ==
    IF w.file.exists /\ Dangling(loadConfig(w.file))
    THEN [w EXCEPT !.file.doc.current_account = ""]
    ELSE w

Outcome(w) ==
    LET f == Forget(w) IN
    [file |-> f.file, keys |-> f.keys, ssh |-> f.ssh, git |-> f.git, dirs |-> f.dirs,
     local |-> f.local, err |-> f.err]

SameOutcome(a, b) == Outcome(a) = Outcome(b)

C8_GhostTolerated ==
    Dangling(Store) =>
        /\ ~getAccount(Store, Store.CurrentAccount).found
        /\ listCurrent(Store) = {}
        /\ listCmd(World).err = ""
        /\ \A name \in NamesOf(Store.Accounts) :
              /\ \A id \in Identities, genResp \in Answers, resp \in Answers :
                    SameOutcome(
                        addCmd(World, name, id[1], id[2], "", genResp, TRUE, resp),
                        addCmd(Forget(World), name, id[1], id[2], "", genResp, TRUE, resp))
              /\ \A globalFlag \in BOOLEAN :
                    /\ useCmd(World, name, "", globalFlag, TRUE, TRUE).err = ""
                    /\ SameOutcome(
                           useCmd(World, name, "", globalFlag, TRUE, TRUE),
                           useCmd(Forget(World), name, "", globalFlag, TRUE, TRUE))
              /\ globalCmd(World, name, TRUE, TRUE).err = ""
              /\ SameOutcome(globalCmd(World, name, TRUE, TRUE),
                             globalCmd(Forget(World), name, TRUE, TRUE))
              /\ \A resp \in Answers, keyResp \in Answers :
                    /\ removeCmd(World, name, resp, keyResp).err = ""
                    /\ SameOutcome(removeCmd(World, name, resp, keyResp),
                                   removeCmd(Forget(World), name, resp, keyResp))

\* add or remove has just succeeded on a store whose currentAccount "ghost"
\* names none of its accounts
C8_Witness ==
    /\ Dangling(Store)
    /\ Store.CurrentAccount = "ghost"
    /\ lastCmd.op \in {"add", "remove"}
    /\ result = "ok"
    /\ Len(Store.Accounts) > 0

----------------------------------------------------------------------------
\* C9: switching the active account (use <name> without a path, with or
\* without --global, or global <name>) to a name that is not in the store
\* fails with the not-found error and changes nothing: the store with its
\* currentAccount and account sequence and the global git identity are as
\* before, whatever git would have answered.  Switching to a name that is
\* in the store sets currentAccount to that name.
SwitchNames == StoreNames \cup {"ghost"}

----------------------------------------------------------------------------
----------------------------------------------------------------------------
\* C11: when the migrate command finishes, migrationDone is true in the
\* persisted store, whatever the store held before: its prior migrationDone
\* value and its accounts do not matter.
C11_MigrateEndsDone ==
    (lastCmd.op = "migrate" /\ result = "ok") => Store.MigrationDone

----------------------------------------------------------------------------
\* C12: the SSH part of discovery emits exactly one DiscoveredAccount for
\* each Host block of ~/.ssh/config whose pattern is github.com-<suffix>
\* with a non-empty suffix and which holds a User line, in the order of the
\* blocks, and nothing for any other block: the username is the value of a
\* User line of that block and the source names that block's pattern.
IsHostLine(line) == HasPrefix(TrimSpace(line), "Host ")

HostPattern(line) == TrimPrefix(TrimSpace(line), "Host ")

\* the last line of the Host block that starts at line i
BlockEnd(ssh, i) ==
    IF \E j \in (i + 1)..Len(ssh) : IsHostLine(ssh[j])
    THEN (CHOOSE j \in (i + 1)..Len(ssh) :
              IsHostLine(ssh[j]) /\ \A k \in (i + 1)..(j - 1) : ~IsHostLine(ssh[k])) - 1
    ELSE Len(ssh)

\* the values of the User lines of the Host block that starts at line i
BlockUsers(ssh, i) ==
    {TrimPrefix(TrimSpace(ssh[j]), "User ") :
        j \in {k \in (i + 1)..BlockEnd(ssh, i) : HasPrefix(TrimSpace(ssh[k]), "User ")}}

\* the first lines of the blocks that discovery is to report
AccountBlocks(ssh) ==
    {i \in 1..Len(ssh) :
        /\ IsHostLine(ssh[i])
        /\ HasPrefix(HostPattern(ssh[i]), "github.com-")
        /\ TrimPrefix(HostPattern(ssh[i]), "github.com-") # ""
        /\ BlockUsers(ssh, i) # {}}

RECURSIVE Ascending(_)
Ascending(S) ==
    IF S = {} THEN <<>>
    ELSE LET m == CHOOSE x \in S : \A y \in S : x <= y
         IN  <<m>> \o Ascending(S \ {m})

C12_OnePerBlock ==
    LET found == discoverSSHAccounts(sshConfig)
        blocks == Ascending(AccountBlocks(sshConfig))
    IN  /\ Len(found) = Len(blocks)
        /\ \A k \in 1..Len(found) :
              /\ found[k].Source = "SSH Config (" \o HostPattern(sshConfig[blocks[k]]) \o ")"
              /\ found[k].Username \in BlockUsers(sshConfig, blocks[k])
              /\ ~found[k].Suggested

----------------------------------------------------------------------------
\* C13: discovery yields its candidates in a fixed order and reads only.  If
\* global user.name or user.email is set, the first candidate is the single
\* "Global Git Config" one, suggested, with that name and email; otherwise
\* there is none.  The candidates after it are those of ~/.ssh/config, not
\* suggested, in the order of the Host blocks they name; a missing
\* ~/.ssh/config yields none.  A list command, whose first-run check runs
\* the discovery, leaves ~/.ssh/config, ~/.gitconfig and the key files as
\* they were.
FromGit(d) == d.Source = "Global Git Config"

\* the candidates cands name Host lines of ssh that follow one another
InBlockOrder(cands, ssh) ==
    \E f \in [1..Len(cands) -> 1..Len(ssh)] :
        /\ \A k \in 1..Len(cands) :
              /\ IsHostLine(ssh[f[k]])
              /\ cands[k].Source = "SSH Config (" \o HostPattern(ssh[f[k]]) \o ")"
        /\ \A k \in 1..(Len(cands) - 1) : f[k] <= f[k + 1]

C13_Ordered ==
    LET found == discoverExistingAccounts(gitconfig, sshConfig)
        hasGit == gitconfig.userName # "" \/ gitconfig.userEmail # ""
        rest == IF hasGit THEN SubSeq(found, 2, Len(found)) ELSE found
    IN  /\ hasGit => /\ Len(found) >= 1
                     /\ found[1] = Discovered(gitconfig.userName, gitconfig.userEmail, "",
                                              "Global Git Config", TRUE)
        /\ \A k \in 1..Len(rest) : ~FromGit(rest[k]) /\ ~rest[k].Suggested
        /\ rest = <<>> \/ InBlockOrder(rest, sshConfig)
        /\ sshConfig = <<>> => rest = <<>>

C13_Step ==
    /\ C13_Ordered
    /\ lastCmd'.op = "list" => UNCHANGED <<sshConfig, gitconfig, keyFiles, dirConfig>>

C13_DiscoveryOrder == [][C13_Step]_vars

\* list has run the discovery on a machine with a global git identity and
\* two Host blocks with a User line each, and imported from it
C13_Witness ==
    /\ lastCmd.op = "list"
    /\ Len(discoverExistingAccounts(gitconfig, sshConfig)) = 3
    /\ Cardinality(AccountBlocks(sshConfig)) = 2
    /\ Len(Store.Accounts) > 0

----------------------------------------------------------------------------
\* C14: show-includes reports, for each includeIf gitdir stanza of
\* ~/.gitconfig, the stanza's pattern with the first path assignment that
\* follows it before the next section header, and nothing else: a stanza
\* without such a path line is left out, and so is a path line under any
\* other section header.
IsGitdirHeader(line) == HasPrefix(line, "[includeIf") /\ printGitdir(line) # <<>>

IsPathLine(line) == HasPrefix(line, "path") /\ printPath(line) # <<>>

\* the stanzas with their paths, from line i on; pending holds the pattern
\* of the stanza that still waits for its path
RECURSIVE PairedIncludes(_, _, _)
PairedIncludes(lines, i, pending) ==
    IF i > Len(lines) THEN <<>>
    ELSE LET line == TrimSpace(lines[i]) IN
         IF IsGitdirHeader(line) THEN PairedIncludes(lines, i + 1, printGitdir(line))
         ELSE IF HasPrefix(line, "[") THEN PairedIncludes(lines, i + 1, <<>>)
         ELSE IF pending # <<>> /\ IsPathLine(line)
         THEN pending \o printPath(line) \o PairedIncludes(lines, i + 1, <<>>)
         ELSE PairedIncludes(lines, i + 1, pending)

C14_PairsOnly ==
    showIncludes(gitconfigText(gitconfig)) = PairedIncludes(gitconfigText(gitconfig), 1, <<>>)

----------------------------------------------------------------------------
\* C15: key generation for a path that a key file occupies fails with the
\* already-exists error whatever ssh-keygen would have done, and changes
\* nothing: generateSSHKey and generate-key return the world as it was, and
\* a command that ended with this error left the key files, ~/.ssh/config
\* and the store untouched.
KeyExists == "SSH key already exists"

C15_Step ==
    /\ \A keyPath \in keyFiles, name \in Names, id \in Identities,
          keygenOk \in BOOLEAN, resp \in Answers :
            generateSSHKey(World, name, id[1], keyPath, keygenOk, resp)
                = Fail(World, KeyExists)
    /\ \A name \in Names, id \in Identities, keygenOk \in BOOLEAN,
          resp \in Answers, saveResp \in Answers :
            DefaultKeyPath(name) \in keyFiles =>
                generateKeyCmd(World, name, id[1], keygenOk, resp, saveResp, id[2])
                    = Fail(World, KeyExists)
    /\ (lastCmd'.op \in {"add", "generate-key"} /\ result' = KeyExists)
          => UNCHANGED <<configFile, keyFiles, sshConfig, gitconfig, dirConfig, localConfig>>

C15_ExistingKeyKept == [][C15_Step]_vars

\* generate-key has just been refused for a name whose key file exists and
\* whose Host block is in ~/.ssh/config
C15_Witness ==
    /\ lastCmd.op = "generate-key"
    /\ result = KeyExists
    /\ lastCmd.key \in keyFiles
    /\ HostLines(sshConfig, lastCmd.name) # {}

----------------------------------------------------------------------------
\* C16: use <account> <path> without --global on a path that has no .git
\* directory fails with the not-a-repository error, whether or not the
\* account is in the store and whatever git would have answered, and the
\* handler changes nothing: after such a command the global and the local
\* git identity are as before, and the store is as the first-run check of
\* the command left it.
NotARepo == "not a git repository"

C16_Step ==
    /\ \A name \in SwitchNames, nameOk \in BOOLEAN, emailOk \in BOOLEAN :
          useCmd(World, name, PlainPath, FALSE, nameOk, emailOk) = Fail(World, NotARepo)
    /\ (lastCmd'.op = "use" /\ result' = NotARepo)
          => /\ UNCHANGED <<gitconfig, localConfig, keyFiles, sshConfig, dirConfig>>
             /\ \E m \in MigrationInputs(World) :
                   configFile' = PersistentPreRun(World, m).file

----------------------------------------------------------------------------
\* C17: directory configuration is last-write-wins: after a successful
\* config <directory> <account>, whatever was configured for the directory
\* before, <directory>/.gitconfig is a [user] section with that account's
\* username and email and nothing else, and ~/.gitconfig holds exactly one
\* includeIf stanza for the directory.
C17_LastWriteWins ==
    (lastCmd.op = "config" /\ result = "ok" /\ lastCmd.name # "") =>
        LET account == getAccount(Store, lastCmd.name).account IN
        /\ dirConfig[lastCmd.path] =
              <<"[user]", "\tname = " \o account.Username,
                "\temail = " \o account.Email, "">>
        /\ Cardinality(StanzaLines(gitconfig, lastCmd.path)) = 1

----------------------------------------------------------------------------
\* C18: ~/.ssh/config is append-only: every command leaves the content the
\* file had before as a prefix of its content after: each step of add,
\* generate-key and remove, and every other command for every input in every
\* reachable state; remove leaves the Host block of the removed account in
\* place.
IsPrefix(s, t) == Len(s) <= Len(t) /\ SubSeq(t, 1, Len(s)) = s

Appended(w) == IsPrefix(sshConfig, w.ssh)

\* the commands that are no step of the specification, applied to the
\* reachable state
C18_Others ==
    /\ \A m \in MigrationInputs(World) : Appended(PersistentPreRun(World, m))
    /\ \A m \in MigrationInputs(resetMigration(World)) : Appended(migrateCmd(World, m))
    /\ Appended(listCmd(World)) /\ Appended(showIncludesCmd(World))
    /\ \A name \in StoreNames, path \in {"", RepoPath, PlainPath}, globalFlag \in BOOLEAN,
          nameOk \in BOOLEAN, emailOk \in BOOLEAN :
          /\ Appended(useCmd(World, name, path, globalFlag, nameOk, emailOk))
          /\ Appended(globalCmd(World, name, nameOk, emailOk))
    /\ \A d \in DirArgs, name \in StoreNames : Appended(dirConfigCmd(World, <<d, name>>, "/w", 0))
    /\ \A d \in CleanDirs, resp \in 0..MaxAccounts : Appended(dirConfigCmd(World, <<>>, d, resp))

C18_AppendOnly == [][IsPrefix(sshConfig, sshConfig')]_vars /\ []C18_Others

\* a confirmed remove has just deleted an account whose Host block is still
\* in ~/.ssh/config
C18_Witness ==
    /\ lastCmd.op = "remove"
    /\ result = "ok"
    /\ ~HasAccount(Store, lastCmd.name)
    /\ HostLines(sshConfig, lastCmd.name) # {}

----------------------------------------------------------------------------
\* C19: a confirmed remove of an existing account deletes exactly the
\* entries of that name and keeps the others in their order; the current
\* account becomes the first remaining name (or empty) if it was the removed
\* one and is unchanged otherwise; key files are deleted only when the offer
\* to delete them is accepted, and a declined remove changes nothing.
Others(accounts, name) == SelectSeq(accounts, LAMBDA acc : acc.Name # name)

CurrentAfter(c, name) ==
    IF c.CurrentAccount # name THEN c.CurrentAccount
    ELSE IF Others(c.Accounts, name) = <<>> THEN ""
    ELSE Others(c.Accounts, name)[1].Name

Removed(before, after, name) ==
    /\ after.Accounts = Others(before.Accounts, name)
    /\ after.CurrentAccount = CurrentAfter(before, name)

C19_Handler ==
    \A name \in StoreNames : HasAccount(Store, name) =>
        /\ removeCmd(World, name, "n", "y") = World
        /\ \A keyResp \in Answers :
              LET w == removeCmd(World, name, "y", keyResp) IN
              /\ w.err = ""
              /\ Removed(Store, loadConfig(w.file), name)
              /\ w.keys \subseteq keyFiles
              /\ keyResp = "n" => w.keys = keyFiles
              /\ keyFiles \ w.keys \subseteq {getAccount(Store, name).account.SSHKey}

C19_Step ==
    (/\ lastCmd'.op = "remove"
     /\ result' = "ok"
     /\ HasAccount(Store, lastCmd'.name)
     /\ ~HasAccount(Store', lastCmd'.name)) => Removed(Store, Store', lastCmd'.name)

C19_Remove == [][C19_Step]_vars /\ []C19_Handler

\* a confirmed remove has just deleted the current account and its key file
\* and left another account, now the current one
C19_Witness ==
    /\ lastCmd.op = "remove"
    /\ result = "ok"
    /\ ~HasAccount(Store, lastCmd.name)
    /\ Store.Accounts # <<>>
    /\ Store.CurrentAccount = Store.Accounts[1].Name
    /\ DefaultKeyPath(lastCmd.name) \notin keyFiles
    /\ keyFiles # {}

----------------------------------------------------------------------------
\* C20: for every hostname generateKeySuffix returns the first
\* dot-separated label, cut to 8 characters, of the hostname without its
\* leading common prefixes (the whole of it, cut to 8 characters, when no dot
\* is left); "git.company.com" gives "company", "shortdomain" gives
\* "shortdom", "a.b" gives "a", and no result is longer than 8 characters.
CommonPrefixes == <<"git.", "code.", "source.">>

RECURSIVE StripCommon(_, _)
StripCommon(hostname, prefixes) ==
    IF prefixes = <<>> THEN hostname
    ELSE StripCommon(IF HasPrefix(hostname, Head(prefixes))
                     THEN SubSeq(hostname, Len(Head(prefixes)) + 1, Len(hostname))
                     ELSE hostname,
                     Tail(prefixes))

\* the longest prefix of s without a dot
FirstLabel(s) ==
    CHOOSE l \in {SubSeq(s, 1, n) : n \in 0..Len(s)} :
        /\ ~Contains(l, ".")
        /\ l = s \/ SubSeq(s, Len(l) + 1, Len(l) + 1) = "."

First8(s) == SubSeq(s, 1, IF Len(s) < 8 THEN Len(s) ELSE 8)

deriveKeySuffix(hostname) == First8(FirstLabel(StripCommon(hostname, CommonPrefixes)))

\* the hostname typed in the dialogue, whether it was accepted or not
Typed == IF lastCmd.op = "provider" THEN lastCmd.name ELSE provider.Hostname

C20_KeySuffix ==
    /\ generateKeySuffix(Typed) = deriveKeySuffix(Typed)
    /\ Len(generateKeySuffix(Typed)) <= 8
    /\ ~Contains(Typed, ".") => generateKeySuffix(Typed) = First8(Typed)
    /\ generateKeySuffix("git.company.com") = "company"
    /\ generateKeySuffix("shortdomain") = "shortdom"
    /\ generateKeySuffix("a.b") = "a"
    /\ (lastCmd.op = "provider" /\ result = "ok")
          => provider.KeySuffix = deriveKeySuffix(provider.Hostname)

\* a provider was made for a hostname with a common prefix and a first label
\* of more than 8 characters
C20_Witness ==
    /\ result = "ok"
    /\ provider.Hostname = "git.shortdomain.com"
    /\ provider.KeySuffix = "shortdom"

----------------------------------------------------------------------------
\* C21: every hostname isValidHostname accepts, and so the hostname of every
\* custom Provider that is created, is a port-free DNS hostname: not empty,
\* made of letters, digits, dots and hyphens only, its labels (the parts
\* between the dots) not empty and neither beginning nor ending with a hyphen.
IsLabel(label) ==
    /\ label # ""
    /\ SubSeq(label, 1, 1) # "-"
    /\ SubSeq(label, Len(label), Len(label)) # "-"

IsDNSHostname(hostname) ==
    /\ hostname # ""
    /\ \A i \in 1..Len(hostname) : SubSeq(hostname, i, i) \in Alnum \cup {"-", "."}
    /\ LET labels == Split(hostname, ".")
       IN  \A i \in 1..Len(labels) : IsLabel(labels[i])

C21_HostnameIsDNS ==
    /\ isValidHostname(Typed) => IsDNSHostname(Typed)
    /\ (lastCmd.op = "provider" /\ result = "ok") => IsDNSHostname(provider.Hostname)

----------------------------------------------------------------------------
\* C22: use <account> <path> sets user.name and user.email of the repository
\* at <path> and leaves the global identity and the current account as they
\* were; use <account> without a path, with or without --global, sets the
\* global identity and makes the account current; a path together with
\* --global is refused and nothing changes.
IdentityOf(account) == [userName |-> account.Username, userEmail |-> account.Email]

GlobalIdentity(git) == [userName |-> git.userName, userEmail |-> git.userEmail]

C22_Handler ==
    /\ \A name \in StoreNames : HasAccount(Store, name) =>
          LET account == getAccount(Store, name).account
              local == useCmd(World, name, RepoPath, FALSE, TRUE, TRUE)
          IN  /\ local.err = ""
              /\ local.local = IdentityOf(account)
              /\ local.git = gitconfig
              /\ loadConfig(local.file).CurrentAccount = Store.CurrentAccount
              /\ \A globalFlag \in BOOLEAN :
                    LET global == useCmd(World, name, "", globalFlag, TRUE, TRUE)
                    IN  /\ global.err = ""
                        /\ GlobalIdentity(global.git) = IdentityOf(account)
                        /\ loadConfig(global.file).CurrentAccount = name
    /\ \A name \in StoreNames, path \in {RepoPath, PlainPath} :
          LET both == useCmd(World, name, path, TRUE, TRUE, TRUE)
          IN  both.err # "" /\ [both EXCEPT !.err = ""] = World

C22_Step ==
    (lastCmd'.op = "use" /\ result' = "ok" /\ HasAccount(Store, lastCmd'.name)) =>
        LET account == getAccount(Store, lastCmd'.name).account
        IN  IF lastCmd'.path # ""
            THEN /\ localConfig' = IdentityOf(account)
                 /\ gitconfig' = gitconfig
                 /\ Store'.CurrentAccount = Store.CurrentAccount
            ELSE /\ GlobalIdentity(gitconfig') = IdentityOf(account)
                 /\ Store'.CurrentAccount = lastCmd'.name

----------------------------------------------------------------------------
\* C23: a global switch (use without a path, global) sets user.name, then
\* user.email, then saves the current account, and stops at the step that
\* fails without undoing the earlier ones: when the first git invocation
\* fails nothing is written, when the second fails user.name stays written
\* and the current account keeps its value; the current account changes only
\* after both invocations succeeded.
NameFailed == {"failed to set git user.name", "failed to set global git user.name"}

EmailFailed == {"failed to set git user.email", "failed to set global git user.email"}

\* w is the outcome of a global switch to the account, run in the state at hand
StopsAtFailure(w, name, nameOk, emailOk) ==
    LET account == getAccount(Store, name).account IN
    /\ ~nameOk =>
          /\ w.err \in NameFailed
          /\ w.git = gitconfig
          /\ w.file = configFile
    /\ (nameOk /\ ~emailOk) =>
          /\ w.err \in EmailFailed
          /\ w.git = [gitconfig EXCEPT !.userName = account.Username]
          /\ w.file = configFile
    /\ (nameOk /\ emailOk) =>
          /\ w.err = ""
          /\ GlobalIdentity(w.git) = IdentityOf(account)
          /\ loadConfig(w.file).CurrentAccount = name

C23_Handler ==
    \A name \in StoreNames, nameOk \in BOOLEAN, emailOk \in BOOLEAN :
        HasAccount(Store, name) =>
            /\ StopsAtFailure(globalCmd(World, name, nameOk, emailOk), name, nameOk, emailOk)
            /\ \A globalFlag \in BOOLEAN :
                  StopsAtFailure(useCmd(World, name, "", globalFlag, nameOk, emailOk),
                                 name, nameOk, emailOk)

C23_Step ==
    (/\ lastCmd'.op \in {"use", "global"}
     /\ HasAccount(Store, lastCmd'.name)
     /\ Store'.CurrentAccount # Store.CurrentAccount)
        => /\ result' = "ok"
           /\ GlobalIdentity(gitconfig') = IdentityOf(getAccount(Store, lastCmd'.name).account)

C23_StopsAtFailure == [][C23_Step]_vars /\ []C23_Handler

\* the second git invocation of a switch has just failed: user.name is the one
\* of the account asked for, user.email and the current account are not
C23_Witness ==
    /\ lastCmd.op \in {"use", "global"}
    /\ result \in EmailFailed
    /\ HasAccount(Store, lastCmd.name)
    /\ gitconfig.userName = getAccount(Store, lastCmd.name).account.Username
    /\ gitconfig.userEmail # getAccount(Store, lastCmd.name).account.Email
    /\ Store.CurrentAccount \notin {"", lastCmd.name}

----------------------------------------------------------------------------
\* C24: the store is read as a whole and overwritten as a whole with no
\* guard between processes: what a process saves is the store it loaded with
\* its own change, whatever another process saved in between, so the store
\* on disk is the in-memory store of the process that saved last, and two
\* adds of distinct names can end with only one of the accounts stored.
SameStore(c, d) == c.Accounts = d.Accounts /\ c.CurrentAccount = d.CurrentAccount

C24_Step ==
    \A p \in Procs :
        (procs[p].pc = "loaded" /\ procs'[p].pc = "done") =>
            /\ SameStore(Store', addAccount(procs[p].config, procs[p].account))
            /\ SameStore(Store', memConfig')

C24_LastSaveWins == [][C24_Step]_vars

\* both processes have added, each an account of its own name, and the store
\* holds only the account of the one that saved last
C24_Witness ==
    /\ \A p \in Procs : procs[p].pc = "done"
    /\ procs[1].account.Name # procs[2].account.Name
    /\ NamesOf(Store.Accounts) = {lastCmd.name}
    /\ \A p \in Procs : Len(procs[p].config.Accounts) = 0

----------------------------------------------------------------------------
\* C25: whenever currentAccount names an account of the store, the global
\* git identity is that account's: user.name is its username and user.email
\* its email.
C25_IdentityAgrees ==
    HasAccount(Store, Store.CurrentAccount) =>
        GlobalIdentity(gitconfig) = IdentityOf(getAccount(Store, Store.CurrentAccount).account)

----------------------------------------------------------------------------
\* C26: global <name> and use <name> without a path, run from the same store
\* and the same ~/.gitconfig with the same outcomes of git, both succeed or
\* both fail and leave the same accounts, the same currentAccount and the
\* same global user.name and user.email.
SameEffect(u, g) ==
    /\ (u.err = "") <=> (g.err = "")
    /\ SameStore(loadConfig(u.file), loadConfig(g.file))
    /\ GlobalIdentity(u.git) = GlobalIdentity(g.git)

C26_GlobalIsUse ==
    \A name \in StoreNames, nameOk \in BOOLEAN, emailOk \in BOOLEAN,
       m \in MigrationInputs(World) :
        LET w == PersistentPreRun(World, m)
        IN  \A globalFlag \in BOOLEAN :
                SameEffect(useCmd(w, name, "", globalFlag, nameOk, emailOk),
                           globalCmd(w, name, nameOk, emailOk))

\* a store with an account that is not the current one, to which both
\* commands switch, and with a name that both refuse
C26_Witness ==
    /\ lastCmd.op = "global"
    /\ \E name \in StoreNames :
          /\ HasAccount(Store, name)
          /\ name # Store.CurrentAccount
          /\ globalCmd(World, name, TRUE, TRUE).err = ""
          /\ useCmd(World, name, "", FALSE, TRUE, TRUE).file # configFile
    /\ \E name \in StoreNames :
          /\ globalCmd(World, name, TRUE, TRUE).err # ""
          /\ useCmd(World, name, "", FALSE, TRUE, TRUE).err # ""

----------------------------------------------------------------------------
\* C27: an add to an empty store makes the account current and sets its
\* isDefault flag; an add to a store that holds accounts, of a new name or
\* of a name it holds, leaves currentAccount as it was; and no reachable
\* store holds more than one account with isDefault = true.
Defaults(c) == {i \in 1..Len(c.Accounts) : c.Accounts[i].IsDefault}

C27_Handler ==
    \A name \in Names, id \in Identities :
        LET w == addCmd(World, name, id[1], id[2], "", "y", TRUE, "n")
            after == loadConfig(w.file)
        IN  /\ w.err = ""
            /\ IF Store.Accounts = <<>>
               THEN /\ after.CurrentAccount = name
                    /\ getAccount(after, name).account.IsDefault
               ELSE after.CurrentAccount = Store.CurrentAccount

C27_Step ==
    (lastCmd'.op = "add" /\ result' = "ok" /\ Store.Accounts # <<>>)
        => Store'.CurrentAccount = Store.CurrentAccount

C27_AddAndDefault ==
    [][C27_Step]_vars /\ [](C27_Handler /\ Cardinality(Defaults(Store)) <= 1)

\* an add to a store that held the current, default account has just put a
\* second account next to it
C27_Witness ==
    /\ lastCmd.op = "add"
    /\ result = "ok"
    /\ Len(Store.Accounts) = 2
    /\ Store.CurrentAccount = Store.Accounts[1].Name
    /\ Store.Accounts[2].Name = lastCmd.name
    /\ Store.CurrentAccount # lastCmd.name
    /\ Defaults(Store) = {1}

----------------------------------------------------------------------------
\* C28: the first-run check returns for every input: whatever lines are on
\* the standard input, and also when the input has ended, the prompts of
\* checkAndOfferMigration, selectAccountsToMigrate, migrateAccount and
\* selectSSHKey come to an end and the command goes on.
C28_FirstRunReturns == <>(procs[1].pc = "returned")

----------------------------------------------------------------------------
\* C29: for every hostname isValidHostname accepts generateKeySuffix returns
\* a string that is not empty, so no custom Provider is created with an
\* empty keySuffix.
C29_SuffixNotEmpty ==
    /\ isValidHostname(Typed) => generateKeySuffix(Typed) # ""
    /\ (lastCmd.op = "provider" /\ result = "ok") => provider.KeySuffix # ""

----------------------------------------------------------------------------
\* C30: when two processes have run the directory configuration for the same
\* directory D at the same time, their checks and appends interleaved in any
\* order, ~/.gitconfig holds exactly one includeIf stanza for D/.
C30_OneStanzaAfterRace ==
    (/\ \A p \in Procs : procs[p].pc = "done"
     /\ gitDirPattern(procs[1].dir) = gitDirPattern(procs[2].dir))
        => Cardinality(StanzaLines(gitconfig, procs[1].dir)) = 1

====
